---------------------------- MODULE Spec2Model ----------------------------
(***************************************************************************)
(* Model of the background task subsystem of the email worker:             *)
(*   - QueueManager   (src/src/services/storage/queue.ts, and the variant  *)
(*                     in src/unnamed/part_000)                            *)
(*   - JobScheduler   (src/src/jobs/scheduler.ts)                          *)
(*   - JobWorker      (src/src/jobs/workers.ts)                            *)
(*   - SearchIndexer, SearchOptimizer, SearchQueryEngine                   *)
(*                    (src/src/services/search/query.ts)                   *)
(*                                                                         *)
(* Time is counted in seconds (MsPerUnit milliseconds); every millisecond  *)
(* constant of the source is a multiple of 1000 and is divided by it, so   *)
(* that epoch times fit TLC's 32-bit integers.                             *)
(*                                                                         *)
(* Every Redis command the code awaits is one step of the worker that      *)
(* issues it: several workers run against the same Redis, and the steps    *)
(* of different workers interleave at the awaits.                          *)
(***************************************************************************)
EXTENDS Integers, FiniteSets, Sequences, TLC

\* ------------------------------------------------------------------ bounds
MaxTasks == 2
\* retryOptions.maxAttempts || 3 of safeExecute.
SafeExecuteAttempts == 3
MaxCalls == 2
MaxClock == 1
MaxJobs == 3
MaxJobClock == 2
MaxRetryCalls == 2
MaxEnqueues == 1
MaxJobCalls == 3

\* Wall clock (seconds since 1970) when the model starts: 2023-11-14.
Epoch == 1700000000
\* A scheduledFor an enqueueTask caller may ask for: one hour ahead.
FutureDelay == 3600
\* SearchIndexer / SearchOptimizer calls in one behaviour, and the number of
\* times the clock advances by a lock's time to live.
MaxSearchCalls == 4
\* indexing calls in one behaviour, and the longest content handed to them.
MaxIndexingCalls == 2
\* MemoryCache: calls in one behaviour, ticks of its clock, and the
\* config.maxSize and config.ttl it is constructed with.
MaxCacheCalls == 4
MaxCacheClock == 2
CacheMaxSize == 3
CacheTtl == 2
MaxContentLength == 3
MaxLockTicks == 1
MaxAlertCalls == 4
\* Objects, rows and cache keys in one behaviour, and the number of uploads
\* and cleanup calls.
MaxItems == 2
MaxProgressCalls == 2
\* Calls of JobScheduler.enqueue where the order of the jobs is at issue.
MaxOrderEnqueues == 3
MaxCleanupCalls == 4

\* ------------------------------------------------------- program constants
MsPerUnit == 1000
\* options.chunkSize || 1000 of indexing.
DefaultChunkSize == 1000

\* enqueueTask: maxAttempts: options.maxAttempts || 3
DefaultMaxAttempts == 3

Workers == {"w1", "w2"}
TaskIds == 1..MaxTasks
Priorities == {"high", "normal", "low"}
\* enum TaskType.
TaskTypes == {"process_email", "send_email", "process_attachments", "generate_analytics",
              "cleanup_storage", "index_search", "update_thread", "send_notification"}

\* ------------------------------------------------------------- JS values
\* A Date object, the ISO string JSON.stringify turns it into, and undefined.
DateObj(t) == <<"Date", t>>
IsoString(t) == <<"iso", t>>
Undefined == <<"undefined", 0>>

\* Date.prototype.toJSON as JSON.stringify applies it; strings and undefined
\* pass through.
toJSON(d) == IF d[1] = "Date" THEN IsoString(d[2]) ELSE d

\* d.getTime exists only on a Date object; on the string JSON.parse returns
\* the call throws TypeError.
hasGetTime(d) == d[1] = "Date"
getTime(d) == d[2]

\* The instant a date value denotes, whatever its representation.
TimeOf(d) == d[2]

\* JSON.stringify(task): every Date field becomes its ISO string.  JSON.parse
\* leaves those strings as they are, so a parsed task is the member itself.
JSONstringify(task) ==
    [task EXCEPT !.createdAt = toJSON(@), !.scheduledFor = toJSON(@),
                 !.lastAttemptAt = toJSON(@), !.completedAt = toJSON(@)]

\* ------------------------------------------------------ Redis sorted sets
\* A sorted set is a set of [m |-> member, s |-> score], one entry a member.
ZAdd(z, m, s) == {e \in z : e.m # m} \cup {[m |-> m, s |-> s]}
ZRem(z, m) == {e \in z : e.m # m}
\* ZRANGE key -inf max BYSCORE LIMIT 0 1: the entry of least score among those
\* of score <= max.  Equal scores are ordered by the member's bytes, which
\* start with the random task id: any of them may come first.
ZRangeByScoreFirst(z, max) ==
    {e \in z : e.s <= max /\ \A f \in z : f.s <= max => e.s <= f.s}

VARIABLES
    now,          \* Date.now(), seconds
    queue,        \* email:queue
    processing,   \* email:processing
    failed,       \* email:failed
    status,       \* email:status hash: task id -> status record
    nextId,       \* ids Helpers.generateId has handed out: 1..nextId-1
    pc,           \* per worker: where its processNextTask call stands
    task,         \* per worker: the local variable task
    result,       \* per worker: result[0] of the zrange
    leaseNow,     \* per worker: the local const now of processNextTask
    calls,        \* processNextTask calls that found a task, so far
    \* JobScheduler and JobWorker
    jobsQueue,    \* jobs:queue
    jobsScheduled,\* jobs:scheduled
    jobsDlq,      \* jobs:dlq
    jobStore,     \* job:{id} strings: job id -> job
    jobStatus,    \* jobs:status:{id} hashes: job id -> status record
    jobLocks,     \* jobs:locks:{id}: job id -> expiry time, 0 when not set
    nextJobId,    \* ids Helpers.generateId has handed out: 1..nextJobId-1
    jpc,          \* per job worker: where its loop stands
    currentJob,   \* per job worker: this.currentJob
    dueJobs,      \* per job worker: the local dueJobs of moveScheduledJobs
    job,          \* per job worker: the local job of getNextJob
    retryCalls,   \* number of calls of JobScheduler.retryJob so far
    executions,   \* history: handler executions so far, by job data
    jobCalls,     \* number of calls of getNextJob so far
    enqueues,     \* number of calls of JobScheduler.enqueue so far
    \* SearchIndexer and SearchOptimizer
    docIndex,     \* search:index:email hash: id -> stored document
    metaIndex,    \* search:metadata:email: the key's type and its hash fields
    inverted,     \* search:inverted:{term} sorted sets: term -> entries
    searchStats,  \* search:stats
    docLock,      \* search:lock:{id}: id -> value and expiry
    optLock,      \* search:optimization:lock: value and expiry
    nextLockId,   \* lock ids Helpers.generateId has handed out
    spc,          \* per indexer caller: where its call stands
    sop,          \* per indexer caller: the arguments and locals of its call
    opc,          \* per optimizer: where its optimizeIndex call stands
    oop,          \* per optimizer: the locals of its optimizeIndex call
    optStats,     \* search:optimization:stats
    searchCalls,  \* number of SearchIndexer / SearchOptimizer calls so far
    \* JobWorker.stop
    isRunning,    \* per job worker: this.isRunning
    stopPc,       \* per job worker: where its stop() call stands
    stopJob,      \* per job worker: the job stop() handed to handleFailedJob
    \* AlertManager
    alertHash,    \* search:alert:{id} hashes: alert id -> fields
    alertIndex,   \* search:alerts sorted set
    alertCalls,   \* number of AlertManager calls so far
    ackCall,      \* the acknowledgeAlert call in flight: its arguments
    \* cleanup handlers
    items,        \* the bucket's objects, the collection's rows, the cache's keys
    cleanupCall,  \* the options of the last cleanup call
    cleanupCalls, \* number of cleanup calls and uploads so far
    \* MemoryCache
    cache,        \* this.cache: the entries in insertion order
    cacheSize,    \* this.stats.get("size")
    cacheStrategy,\* this.config.strategy; "none" before construction
    cacheCalls,   \* number of MemoryCache calls so far
    \* JobScheduler.updateJobProgress
    progressCall, \* the updateJobProgress call in flight: its job and progress
    progressCalls,\* number of updateJobProgress calls so far
    \* SearchOptimizer.cleanupUnusedTerms
    termScan,     \* where the pass stands, the keys it scanned and those to delete
    \* QueueManager.enqueueTask under safeExecute
    enqueueCall,  \* the enqueueTask call: its options, attempts made and outcome
    \* indexing (the index_search handler) over SearchIndexer
    metadataKeys, \* the fields of the hashes search:metadata:{type}, as <<type, id>>
    indexingCall  \* the indexing call: its document, chunks, position and outcome

jvars == <<jobsQueue, jobsScheduled, jobsDlq, jobStore, jobStatus, jobLocks,
           nextJobId, jpc, currentJob, dueJobs, job, retryCalls, executions, jobCalls,
           enqueues>>

wvars == <<isRunning, stopPc, stopJob>>

avars == <<alertHash, alertIndex, alertCalls, ackCall>>

cvars == <<items, cleanupCall, cleanupCalls>>

mvars == <<cache, cacheSize, cacheStrategy, cacheCalls>>

yvars == <<metadataKeys, indexingCall>>
xvars == <<enqueueCall, yvars>>
pvars == <<progressCall, progressCalls, termScan, xvars>>

qvars == <<queue, processing, failed, status, nextId, pc, task, result, leaseNow, calls>>

ivars == <<docIndex, metaIndex, inverted, searchStats>>

svars == <<ivars, docLock, optLock, nextLockId, spc, sop, opc, oop, optStats, searchCalls>>

NoTask == [id |-> 0]
NoEntry == [m |-> NoTask, s |-> 0]
NoStatus == [id |-> 0]

\* calculatePriorityScore: the weights of the three priorities (ms in the source).
PriorityWeight(p) ==
    CASE p = "high" -> 1000000 \div MsPerUnit
      [] p = "normal" -> 100000 \div MsPerUnit
      [] p = "low" -> 10000 \div MsPerUnit

\* calculatePriorityScore(task), evaluated when Date.now() is t.
calculatePriorityScore(t, clock) ==
    getTime(t.scheduledFor) - clock + PriorityWeight(t.priority)

\* updateTaskStatus: the record written to the status hash.
StatusRecord(t) ==
    [id |-> t.id, type |-> t.type, status |-> t.status, attempts |-> t.attempts,
     lastAttemptAt |-> toJSON(t.lastAttemptAt), error |-> t.error,
     completedAt |-> toJSON(t.completedAt)]

updateTaskStatus(t) == status' = [status EXCEPT ![t.id] = StatusRecord(t)]

\* retryTask: backoffMinutes = 2^(attempts-1), added with setMinutes.
backoffSeconds(t) == (2 ^ (t.attempts - 1)) * (60000 \div MsPerUnit)

\* processTask's catch block: retry while attempts < maxAttempts.
shouldRetryOffByOne(t) == t.attempts <= t.maxAttempts
shouldRetry(t) == t.attempts < t.maxAttempts

QueueInit ==
    /\ queue = {}
    /\ processing = {}
    /\ failed = {}
    /\ status = [i \in TaskIds |-> NoStatus]
    /\ nextId = 1
    /\ pc = [w \in Workers |-> "idle"]
    /\ task = [w \in Workers |-> NoTask]
    /\ result = [w \in Workers |-> NoEntry]
    /\ leaseNow = [w \in Workers |-> 0]
    /\ calls = 0

\* The clock advances.
Tick ==
    /\ now < Epoch + MaxClock
    /\ now' = now + 1
    /\ UNCHANGED <<qvars, jvars, svars, wvars, avars, cvars, mvars, pvars>>

\* The task record enqueueTask builds.  deps is the number of descriptors in
\* options.metadata.dependentTasks.
newTask(id, type, priority, delay, maxA, deps, clock) ==
    [id |-> id,
     type |-> type,
     priority |-> priority,
     status |-> "pending",
     attempts |-> 0,
     maxAttempts |-> IF maxA = 0 THEN DefaultMaxAttempts ELSE maxA,
     createdAt |-> DateObj(clock),
     scheduledFor |-> DateObj(clock + delay),
     lastAttemptAt |-> Undefined,
     completedAt |-> Undefined,
     error |-> "undefined",
     dependentTasks |-> deps]

\* enqueueTask(type, payload, {priority, scheduledFor, maxAttempts, metadata}).
\* delay = 0 stands for options.scheduledFor absent, maxA = 0 for
\* options.maxAttempts absent (or 0, which || replaces as well).
enqueueTaskOf(type, priority, delay, maxA, deps) ==
    /\ nextId <= MaxTasks
    /\ LET t == newTask(nextId, type, priority, delay, maxA, deps, now)
       IN /\ queue' = ZAdd(queue, JSONstringify(t), calculatePriorityScore(t, now))
          /\ updateTaskStatus(t)
    /\ nextId' = nextId + 1
    /\ UNCHANGED <<jvars, svars, wvars, avars, cvars, mvars, pvars>>
    /\ UNCHANGED <<now, processing, failed, pc, task, result, leaseNow, calls>>

\* enqueueTask(type, payload, options) is called: safeExecute hands the
\* operation to Helpers.retry.  before: the ids of the entries email:queue
\* holds at the call.
enqueueTask_call(priority, delay, maxA) ==
    /\ enqueueCall.stage # "running"
    /\ nextId <= MaxTasks
    /\ enqueueCall' = [stage |-> "running", attempt |-> 0, priority |-> priority,
                       delay |-> delay, maxA |-> maxA,
                       before |-> {e.m.id : e \in queue}, id |-> 0]
    /\ UNCHANGED <<now, qvars, jvars, svars, wvars, avars, cvars, mvars, progressCall,
                   progressCalls, termScan, yvars>>

\* One attempt of Helpers.retry at the operation of enqueueTask: a task with
\* a new id, zadd under withTimeout, updateTaskStatus.  The zadd may fail
\* unapplied (zaddThrows, not applied), or be applied after the 3000 ms of
\* withTimeout have rejected (zaddThrows, applied); the hset of
\* updateTaskStatus may fail.  A throw of the last attempt ends the call.
safeExecute_operation(applied, zaddThrows, hsetThrows) ==
    /\ enqueueCall.stage = "running"
    /\ nextId <= MaxTasks
    /\ applied \/ zaddThrows
    /\ zaddThrows => ~hsetThrows
    /\ LET t == newTask(nextId, "process_email", enqueueCall.priority, enqueueCall.delay,
                        enqueueCall.maxA, 0, now)
           throws == zaddThrows \/ hsetThrows
       IN /\ queue' = IF applied
                      THEN ZAdd(queue, JSONstringify(t), calculatePriorityScore(t, now))
                      ELSE queue
          /\ IF throws THEN status' = status ELSE updateTaskStatus(t)
          /\ enqueueCall' =
                IF ~throws
                THEN [enqueueCall EXCEPT !.stage = "returned", !.id = t.id]
                ELSE [enqueueCall EXCEPT
                        !.attempt = @ + 1,
                        !.stage = IF enqueueCall.attempt + 1 < SafeExecuteAttempts
                                  THEN "running" ELSE "threw"]
    /\ nextId' = nextId + 1
    /\ UNCHANGED <<now, jvars, svars, wvars, avars, cvars, mvars, progressCall, progressCalls,
                   termScan, yvars, processing, failed, pc, task, result, leaseNow, calls>>

\* enqueueTask of a process_email task.
enqueueTaskWith(priority, delay, maxA, deps) ==
    enqueueTaskOf("process_email", priority, delay, maxA, deps)

\* enqueueTask without options.metadata.
enqueueTask(priority, delay, maxA) == enqueueTaskWith(priority, delay, maxA, 0)

\* processNextTask, first await: zrange(QUEUE_KEY, "-inf", now, byScore, 0, 1).
\* With an empty result the call returns and nothing changes.
processNextTask_zrange(w) ==
    /\ pc[w] = "idle"
    /\ \E e \in ZRangeByScoreFirst(queue, now) :
          /\ result' = [result EXCEPT ![w] = e]
          /\ task' = [task EXCEPT ![w] = e.m]
    /\ leaseNow' = [leaseNow EXCEPT ![w] = now]
    /\ pc' = [pc EXCEPT ![w] = "zrem"]
    /\ calls < MaxCalls
    /\ calls' = calls + 1
    /\ UNCHANGED <<jvars, svars, wvars, avars, cvars, mvars, pvars>>
    /\ UNCHANGED <<now, queue, processing, failed, status, nextId>>

\* processNextTask, second await: zrem(QUEUE_KEY, result[0].member).
processNextTask_zrem(w) ==
    /\ pc[w] = "zrem"
    /\ queue' = ZRem(queue, result[w].m)
    /\ result' = [result EXCEPT ![w] = NoEntry]
    /\ pc' = [pc EXCEPT ![w] = "zadd"]
    /\ UNCHANGED <<jvars, svars, wvars, avars, cvars, mvars, pvars>>
    /\ UNCHANGED <<now, processing, failed, status, nextId, task, leaseNow, calls>>

\* processNextTask, third await: zadd(PROCESSING_KEY, {score: now, member:
\* {...task, status: PROCESSING, lastAttemptAt: new Date()}}); then processTask
\* starts: status, attempts and lastAttemptAt of the local task are set and
\* the processor is called.
processNextTask_zadd(w) ==
    /\ pc[w] = "zadd"
    /\ processing' = ZAdd(processing,
                          JSONstringify([task[w] EXCEPT !.status = "processing",
                                                        !.lastAttemptAt = DateObj(now)]),
                          leaseNow[w])
    /\ task' = [task EXCEPT ![w] = [@ EXCEPT !.status = "processing",
                                             !.attempts = @ + 1,
                                             !.lastAttemptAt = DateObj(now)]]
    /\ pc' = [pc EXCEPT ![w] = "exec"]
    /\ leaseNow' = [leaseNow EXCEPT ![w] = 0]
    /\ UNCHANGED <<jvars, svars, wvars, avars, cvars, mvars, pvars>>
    /\ UNCHANGED <<now, queue, failed, status, nextId, result, calls>>

\* processTask's catch block for the local task t: status FAILED, error set,
\* then retryTask (zadd to the queue) or handleFailedTask (zadd to failed).
catchBlock(w, t, message) ==
    LET ft == [t EXCEPT !.status = "failed", !.error = message]
    IN IF shouldRetry(ft)
       THEN LET updatedTask ==
                    [ft EXCEPT !.status = "scheduled",
                               !.scheduledFor = DateObj(now + backoffSeconds(ft))]
            IN /\ queue' = ZAdd(queue, JSONstringify(updatedTask),
                                calculatePriorityScore(updatedTask, now))
               /\ task' = [task EXCEPT ![w] = updatedTask]
               /\ pc' = [pc EXCEPT ![w] = "retry_status"]
               /\ UNCHANGED failed
       ELSE /\ failed' = ZAdd(failed, JSONstringify(ft), now)
            /\ task' = [task EXCEPT ![w] = ft]
            /\ pc' = [pc EXCEPT ![w] = "failed_status"]
            /\ UNCHANGED queue

\* executeTask throws: the catch block of processTask runs.
executeTask_throws(w) ==
    /\ pc[w] = "exec"
    /\ catchBlock(w, task[w], "handler")
    /\ UNCHANGED <<jvars, svars, wvars, avars, cvars, mvars, pvars>>
    /\ UNCHANGED <<now, processing, status, nextId, result, leaseNow, calls>>

\* executeTask returns: status COMPLETED, completedAt set, and finalizeTask
\* issues zrem(PROCESSING_KEY, JSON.stringify(task)).  For a type without
\* a processor executeTask throws instead.
executeTask_returns(w) ==
    /\ pc[w] = "exec"
    /\ task[w].type \in TaskTypes
    /\ LET t == [task[w] EXCEPT !.status = "completed", !.completedAt = DateObj(now)]
       IN /\ task' = [task EXCEPT ![w] = t]
          /\ processing' = ZRem(processing, JSONstringify(t))
    /\ pc' = [pc EXCEPT ![w] = "finalize_status"]
    /\ UNCHANGED <<jvars, svars, wvars, avars, cvars, mvars, pvars>>
    /\ UNCHANGED <<now, queue, failed, status, nextId, result, leaseNow, calls>>

\* finalizeTask, second await: updateTaskStatus(task).
finalizeTask_status(w) ==
    /\ pc[w] = "finalize_status"
    /\ updateTaskStatus(task[w])
    /\ pc' = [pc EXCEPT ![w] = "completion"]
    /\ UNCHANGED <<jvars, svars, wvars, avars, cvars, mvars, pvars>>
    /\ UNCHANGED <<now, queue, processing, failed, nextId, task, result, leaseNow, calls>>

\* handleTaskCompletion -> emitTaskMetrics computes
\* task.completedAt.getTime() - task.createdAt.getTime().  createdAt of a
\* task that came out of JSON.parse is a string: the call throws inside the
\* try of processTask, and the catch block runs on the completed task.
handleTaskCompletion(w) ==
    /\ pc[w] = "completion"
    /\ task[w].dependentTasks = 0
    /\ IF hasGetTime(task[w].completedAt) /\ hasGetTime(task[w].createdAt)
       THEN /\ pc' = [pc EXCEPT ![w] = "idle"]
            /\ task' = [task EXCEPT ![w] = NoTask]
            /\ UNCHANGED <<queue, failed>>
       ELSE catchBlock(w, task[w], "getTime is not a function")
    /\ UNCHANGED <<jvars, svars, wvars, avars, cvars, mvars, pvars>>
    /\ UNCHANGED <<now, processing, status, nextId, result, leaseNow, calls>>

\* handleTaskCompletion of a task with metadata.dependentTasks: the loop
\* awaits enqueueTask(dependentTask.type, dependentTask.payload,
\* dependentTask.options) with no try around it.  The enqueue succeeds, or
\* it rejects (Redis unreachable, timeout) and the rejection reaches the
\* catch block of processTask.
handleTaskCompletion_enqueue(w) ==
    /\ pc[w] = "completion"
    /\ task[w].dependentTasks > 0
    /\ \/ /\ nextId <= MaxTasks
          /\ LET t == newTask(nextId, "process_email", "normal", 0, 0, 0, now)
             IN /\ queue' = ZAdd(queue, JSONstringify(t), calculatePriorityScore(t, now))
                /\ updateTaskStatus(t)
          /\ nextId' = nextId + 1
          /\ pc' = [pc EXCEPT ![w] = "metrics"]
          /\ UNCHANGED <<failed, task>>
       \/ /\ catchBlock(w, task[w], "Failed to enqueue task")
          /\ UNCHANGED <<status, nextId>>
    /\ UNCHANGED <<jvars, svars, wvars, avars, cvars, mvars, pvars>>
    /\ UNCHANGED <<now, processing, result, leaseNow, calls>>

\* emitTaskMetrics after the dependent tasks were enqueued.
emitTaskMetrics(w) ==
    /\ pc[w] = "metrics"
    /\ IF hasGetTime(task[w].completedAt) /\ hasGetTime(task[w].createdAt)
       THEN /\ pc' = [pc EXCEPT ![w] = "idle"]
            /\ task' = [task EXCEPT ![w] = NoTask]
            /\ UNCHANGED <<queue, failed>>
       ELSE catchBlock(w, task[w], "getTime is not a function")
    /\ UNCHANGED <<jvars, svars, wvars, avars, cvars, mvars, pvars>>
    /\ UNCHANGED <<now, processing, status, nextId, result, leaseNow, calls>>

\* retryTask / handleFailedTask, last await: updateTaskStatus; the call of
\* processNextTask is over.  (For a high-priority task handleFailedTask goes
\* on to call sendFailureAlert, which the class does not define: the call
\* rejects, after every write to Redis has been made.)
catchBlock_status(w) ==
    /\ pc[w] \in {"retry_status", "failed_status"}
    /\ updateTaskStatus(task[w])
    /\ pc' = [pc EXCEPT ![w] = "idle"]
    /\ task' = [task EXCEPT ![w] = NoTask]
    /\ UNCHANGED <<jvars, svars, wvars, avars, cvars, mvars, pvars>>
    /\ UNCHANGED <<now, queue, processing, failed, nextId, result, leaseNow, calls>>


\* =========================================================================
\* JobScheduler (src/src/jobs/scheduler.ts) and JobWorker (src/src/jobs/workers.ts)
\* =========================================================================
JobWorkers == {"jw1", "jw2"}
JobIds == 1..MaxJobs
JobPriorities == {"HIGH", "NORMAL", "LOW"}

\* DEFAULTS.RETRY_ATTEMPTS and DEFAULTS.RETRY_DELAY (ms in the source).
RetryAttempts == 3
RetryDelay == 1000 \div MsPerUnit
\* DEFAULTS.JOB_TIMEOUT (ms in the source).
JobTimeout == 300000 \div MsPerUnit
\* setJobLock: ex: 300 (seconds).
LockSeconds == 300
\* acquireLock: ex: 30; acquireOptimizationLock: ex: 3600.
IndexLockSeconds == 30
OptimizationLockSeconds == 3600

\* enqueue: defaultRetryStrategy.
DefaultRetryStrategy ==
    [maxAttempts |-> RetryAttempts, backoff |-> "exponential", initialDelay |-> RetryDelay]

\* The options.retryStrategy values a caller of enqueue passes; NoStrategy
\* stands for options.retryStrategy absent.
NoStrategy == [maxAttempts |-> 0]
RetryStrategyOptions ==
    {NoStrategy,
     [maxAttempts |-> 1, backoff |-> "exponential", initialDelay |-> RetryDelay],
     [maxAttempts |-> 2, backoff |-> "linear", initialDelay |-> RetryDelay]}

NoJob == [id |-> 0]

\* JSON.stringify(job).
JobStringify(j) ==
    [j EXCEPT !.createdAt = toJSON(@), !.scheduledFor = toJSON(@),
                !.startedAt = toJSON(@), !.completedAt = toJSON(@)]

\* calculatePriorityScore with the weights of HIGH and LOW exchanged.
jobPriorityWeightInverted(p) ==
    CASE p = "HIGH" -> 10000 \div MsPerUnit
      [] p = "NORMAL" -> 100000 \div MsPerUnit
      [] p = "LOW" -> 1000000 \div MsPerUnit

\* JobScheduler.calculatePriorityScore, evaluated when Date.now() is clock.
jobPriorityWeight(p) ==
    CASE p = "HIGH" -> 1000000 \div MsPerUnit
      [] p = "NORMAL" -> 100000 \div MsPerUnit
      [] p = "LOW" -> 10000 \div MsPerUnit
jobPriorityScore(j, clock) == clock - jobPriorityWeight(j.priority)

\* ZPOPMIN: the entries of least score.
ZMin(z) == {e \in z : \A f \in z : e.s <= f.s}

\* scheduleJob: the job record it builds.  scheduledFor is a Date or Undefined;
\* timeout = 0 stands for options.timeout absent.
scheduleJob_job(id, type, data, priority, scheduledFor, retryStrategy, timeout, clock) ==
    [id |-> id,
     type |-> type,
     data |-> data,
     priority |-> priority,
     status |-> IF scheduledFor # Undefined THEN "SCHEDULED" ELSE "PENDING",
     attempts |-> 0,
     maxAttempts |-> IF retryStrategy.maxAttempts = 0 THEN RetryAttempts
                     ELSE retryStrategy.maxAttempts,
     retryStrategy |-> retryStrategy,
     timeout |-> IF timeout = 0 THEN JobTimeout ELSE timeout,
     createdAt |-> DateObj(clock),
     scheduledFor |-> IF scheduledFor # Undefined THEN scheduledFor ELSE DateObj(clock),
     lastError |-> "null",
     progress |-> 0,
     startedAt |-> Undefined,
     completedAt |-> Undefined,
     error |-> "undefined",
     result |-> "undefined"]

\* saveJob(j, scheduledFor): one pipeline.
saveJob(j, scheduledFor) ==
    /\ IF scheduledFor # Undefined
       THEN /\ jobsScheduled' = ZAdd(jobsScheduled, JobStringify(j), getTime(scheduledFor))
            /\ UNCHANGED jobsQueue
       ELSE /\ jobsQueue' = ZAdd(jobsQueue, JobStringify(j), jobPriorityScore(j, now))
            /\ UNCHANGED jobsScheduled
    /\ jobStore' = [jobStore EXCEPT ![j.id] = JobStringify(j)]

\* JobWorker.updateJobStatus: hset jobs:status:{id}.
updateJobStatus(j) ==
    jobStatus' = [jobStatus EXCEPT ![j.id] =
                    [status |-> j.status, attempts |-> j.attempts,
                     error |-> j.error, completedAt |-> toJSON(j.completedAt),
                     result |-> j.result]]

\* calculateRetryDelay giving up one attempt too late.
calculateRetryDelayLate(j) ==
    IF j.attempts > j.retryStrategy.maxAttempts THEN -1
    ELSE IF j.retryStrategy.backoff = "exponential"
         THEN j.retryStrategy.initialDelay * (2 ^ j.attempts)
         ELSE j.retryStrategy.initialDelay * (j.attempts + 1)

\* JobScheduler.calculateRetryDelay; -1 stands for null.
calculateRetryDelay(j) ==
    IF j.attempts >= j.retryStrategy.maxAttempts THEN -1
    ELSE IF j.retryStrategy.backoff = "exponential"
         THEN j.retryStrategy.initialDelay * (2 ^ j.attempts)
         ELSE j.retryStrategy.initialDelay * (j.attempts + 1)

\* JobWorker.retryJob: backoffDelay.
backoffDelay(j) ==
    IF j.retryStrategy.backoff = "exponential"
    THEN (2 ^ j.attempts) * j.retryStrategy.initialDelay
    ELSE j.attempts * j.retryStrategy.initialDelay

\* JobWorker.handleFailedJob: shouldRetry.
jobShouldRetry(j) == j.attempts < j.retryStrategy.maxAttempts

JobInit ==
    /\ jobsQueue = {}
    /\ jobsScheduled = {}
    /\ jobsDlq = {}
    /\ jobStore = [i \in JobIds |-> NoJob]
    /\ jobStatus = [i \in JobIds |-> NoStatus]
    /\ jobLocks = [i \in JobIds |-> 0]
    /\ nextJobId = 1
    /\ jpc = [w \in JobWorkers |-> "idle"]
    /\ currentJob = [w \in JobWorkers |-> NoJob]
    /\ dueJobs = [w \in JobWorkers |-> {}]
    /\ job = [w \in JobWorkers |-> NoJob]
    /\ retryCalls = 0
    /\ executions = [i \in JobIds |-> 0]
    /\ jobCalls = 0
    /\ enqueues = 0

\* =========================================================================
\* SearchIndexer, SearchOptimizer: data (src/src/services/search/query.ts)
\* =========================================================================

Callers == {"c1", "c2"}
Optimizers == {"o1", "o2"}
DocIds == {"d1", "d2"}
\* The documents of the model all have type "email".
DocType == "email"
Languages == {"en", "es", "fr", "de"}

\* Words of the documents of the model.
Words == {"Hello", "hello", "the", "world!", "los", "to", "help"}
\* document.content as the sequence of its whitespace-separated words; <<>>
\* is the empty string.
ContentA == <<"Hello", "the", "world!">>
ContentB == <<"los", "to", "hello", "Hello">>
ContentC == <<"help", "help">>
Contents == {<<>>, ContentA, ContentB, ContentC}

\* content.length: the characters of the words and the spaces between them.
RECURSIVE contentLength(_)
contentLength(content) ==
    IF content = <<>> THEN 0
    ELSE IF Len(content) = 1 THEN Len(content[1])
    ELSE Len(Head(content)) + 1 + contentLength(Tail(content))

\* Values of document.metadata.folder, the one metadata key of the model.
Folders == {"inbox", "spam"}

\* tokenizeContent on one word: toLowerCase, then every character outside
\* [\w\s] replaced by a space (which the split drops at the end of a word).
normalize(w) ==
    CASE w = "Hello" -> "hello"
      [] w = "world!" -> "world"
      [] OTHER -> w

\* getStopwords.
stopwordsByLanguage(language) ==
    CASE language = "es" -> {"el", "la", "los", "las", "un", "una", "y", "o", "pero",
                             "en", "con", "de", "por", "para"}
      [] language = "fr" -> {"le", "la", "les", "un", "une", "et", "ou", "mais", "dans",
                             "avec", "de", "pour", "par"}
      [] language = "de" -> {"der", "die", "das", "ein", "eine", "und", "oder", "aber",
                             "in", "mit", "von", "fur"}
      [] OTHER -> {"the", "is", "at", "which", "on", "and", "or", "but", "in", "with",
                   "to", "of", "for", "a", "an"}

\* tokenizeContent(content, language): the tokens in order, with repetitions.
RECURSIVE tokenizeContent(_, _)
tokenizeContent(content, language) ==
    IF content = <<>> THEN <<>>
    ELSE LET token == normalize(Head(content))
             rest == tokenizeContent(Tail(content), language)
         IN IF Len(token) > 2 /\ token \notin stopwordsByLanguage(language)
            THEN <<token>> \o rest
            ELSE rest

Terms == {normalize(w) : w \in Words}

\* calculateTermFrequencies: token -> number of occurrences.
calculateTermFrequencies(tokens) ==
    [t \in {tokens[i] : i \in DOMAIN tokens} |->
        Cardinality({i \in DOMAIN tokens : tokens[i] = t})]

\* The member `${type}:${id}` of a posting set.
Member(id) == DocType \o ":" \o id

NoDoc == [content |-> <<>>, timestamp |-> 0]
NoMeta == [folder |-> "undefined", lastIndexed |-> 0, lastUpdated |-> 0]
NoLock == [value |-> 0, expires |-> 0]
NoCall == [op |-> "none", id |-> "none", content |-> <<>>, language |-> "en",
           metadata |-> [folder |-> "undefined"],
           lockId |-> 0, leaseUntil |-> 0, currentLock |-> 0, document |-> NoDoc,
           error |-> "none"]
NoRun == [lockId |-> 0, leaseUntil |-> 0, currentLock |-> 0, acquired |-> FALSE]

\* GET of a key set with EX: null (0) once the expiry time is reached.
LockValue(l) == IF l.expires > now THEN l.value ELSE 0

SearchInit ==
    /\ docIndex = [i \in DocIds |-> NoDoc]
    /\ metaIndex = [kind |-> "hash", fields |-> [i \in DocIds |-> NoMeta]]
    /\ inverted = [t \in Terms |-> {}]
    /\ searchStats = [documentsCount |-> 0, termsCount |-> 0]
    /\ docLock = [i \in DocIds |-> NoLock]
    /\ optLock = NoLock
    /\ nextLockId = 1
    /\ spc = [c \in Callers |-> "idle"]
    /\ sop = [c \in Callers |-> NoCall]
    /\ opc = [o \in Optimizers |-> "idle"]
    /\ oop = [o \in Optimizers |-> NoRun]
    /\ optStats = [lastOptimizationTime |-> 0]
    /\ searchCalls = 0

\* Every worker has been started: start() sets isRunning before its loop.
WorkerInit ==
    /\ isRunning = [w \in JobWorkers |-> TRUE]
    /\ stopPc = [w \in JobWorkers |-> "idle"]
    /\ stopJob = [w \in JobWorkers |-> NoJob]

\* Alert ids: one a caller chooses, and `index_${now}` of generateSystemAlerts.
CallerAlertId == <<"alert", 1>>
SystemAlertId(t) == <<"index", t>>
AlertIds == {CallerAlertId} \cup {SystemAlertId(t) : t \in Epoch..(Epoch + MaxJobClock)}
\* enum AlertStatus.
AlertStatuses == {"ACTIVE", "RESOLVED", "ACKNOWLEDGED"}
Users == {"u1"}
NoAlert == [id |-> <<"none", 0>>]
NoAck == [alertId |-> <<"none", 0>>, userId |-> "none"]

AlertInit ==
    /\ alertHash = [a \in AlertIds |-> NoAlert]
    /\ alertIndex = {}
    /\ alertCalls = 0
    /\ ackCall = NoAck

\* cleanup: an empty bucket, collection and cache, and no call yet.
NoCleanup == [path |-> "none", olderThan |-> 0, dryRun |-> FALSE]
CleanupInit ==
    /\ items = {}
    /\ cleanupCall = NoCleanup
    /\ cleanupCalls = 0

\* MemoryCache before its construction.
CacheInit ==
    /\ cache = <<>>
    /\ cacheSize = 0
    /\ cacheStrategy = "none"
    /\ cacheCalls = 0

NoProgress == [jobId |-> 0]
NoEnqueue == [stage |-> "idle", attempt |-> 0, priority |-> "normal", delay |-> 0, maxA |-> 0,
              before |-> {}, id |-> 0]
NoIndexing == [stage |-> "idle", documentId |-> "none", content |-> <<>>, chunks |-> <<>>,
               i |-> 0, error |-> "none", calls |-> 0]
NoScan == [stage |-> "idle", keys |-> {}, toDelete |-> {}]
CallInit ==
    /\ progressCall = NoProgress
    /\ progressCalls = 0
    /\ termScan = NoScan
    /\ enqueueCall = NoEnqueue
    /\ metadataKeys = {}
    /\ indexingCall = NoIndexing

Init ==
    /\ now = Epoch
    /\ QueueInit /\ JobInit /\ SearchInit /\ WorkerInit /\ AlertInit
    /\ CleanupInit /\ CacheInit /\ CallInit

\* The clock advances.
JobTick ==
    /\ now < Epoch + MaxJobClock
    /\ now' = now + 1
    /\ UNCHANGED <<qvars, jvars, svars, wvars, avars, cvars, mvars, pvars>>

\* JobScheduler.enqueue(type, data, {priority, scheduledFor, retryStrategy}).
\* delay = 0 stands for options.scheduledFor absent.  The data of the call
\* is named by the id of the job it creates (key); valid says whether the
\* validation of its handler accepts it; timeout = 0 stands for
\* options.timeout absent; limit bounds the number of calls.
enqueueWithin(limit, type, valid, priority, delay, rs, timeout) ==
    /\ nextJobId <= MaxJobs
    /\ enqueues < limit
    /\ enqueues' = enqueues + 1
    /\ LET scheduledFor == IF delay = 0 THEN Undefined ELSE DateObj(now + delay)
           strategy == IF rs = NoStrategy THEN DefaultRetryStrategy ELSE rs
           j == scheduleJob_job(nextJobId, type, [key |-> nextJobId, valid |-> valid],
                                priority, scheduledFor, strategy,
                                IF timeout = 0 THEN JobTimeout ELSE timeout, now)
       IN saveJob(j, scheduledFor)
    /\ nextJobId' = nextJobId + 1
    /\ UNCHANGED <<now, qvars, svars, wvars, avars, cvars, mvars, pvars, jobsDlq, jobStatus, jobLocks, jpc, currentJob, dueJobs,
                   job, retryCalls, executions, jobCalls>>

enqueueOf(type, valid, priority, delay, rs, timeout) ==
    enqueueWithin(MaxEnqueues, type, valid, priority, delay, rs, timeout)

\* enqueue of a cleanup job with data its handler accepts.
enqueue(priority, delay, rs) == enqueueOf("cleanup_storage", TRUE, priority, delay, rs, 0)

\* JobWorker.start, getNextJob -> moveScheduledJobs, first await:
\* zrange(SCHEDULED, 0, now, byScore).  With no due job it returns at once.
moveScheduledJobs_zrange(w) ==
    /\ jpc[w] = "idle"
    /\ isRunning[w]
    /\ jobCalls < MaxJobCalls
    /\ jobCalls' = jobCalls + 1
    /\ LET due == {e.m : e \in {f \in jobsScheduled : 0 <= f.s /\ f.s <= now}}
       IN /\ dueJobs' = [dueJobs EXCEPT ![w] = due]
          /\ jpc' = [jpc EXCEPT ![w] = IF due = {} THEN "zpopmin" ELSE "pipeline"]
    /\ UNCHANGED <<now, qvars, svars, wvars, avars, cvars, mvars, pvars, enqueues, jobsQueue, jobsScheduled, jobsDlq, jobStore, jobStatus,
                   jobLocks, nextJobId, currentJob, job, retryCalls, executions>>

\* moveScheduledJobs, second await: the pipeline of zrem(SCHEDULED, jobStr)
\* and zadd(QUEUE, {...job, status: PENDING}) for every due job read before.
moveScheduledJobs_pipeline(w) ==
    /\ jpc[w] = "pipeline"
    /\ LET moved == {[m EXCEPT !.status = "PENDING"] : m \in dueJobs[w]}
       IN /\ jobsScheduled' = {e \in jobsScheduled : e.m \notin dueJobs[w]}
          /\ jobsQueue' = {e \in jobsQueue : e.m \notin moved}
                            \cup {[m |-> m, s |-> jobPriorityScore(m, now)] : m \in moved}
    /\ dueJobs' = [dueJobs EXCEPT ![w] = {}]
    /\ jpc' = [jpc EXCEPT ![w] = "zpopmin"]
    /\ UNCHANGED <<now, qvars, svars, wvars, avars, cvars, mvars, pvars, enqueues, jobsDlq, jobStore, jobStatus, jobLocks, nextJobId,
                   currentJob, job, retryCalls, executions, jobCalls>>

\* getNextJob: zpopmin(QUEUE).  An empty queue returns null: this.currentJob
\* becomes null and the loop sleeps.
getNextJob_zpopmin(w) ==
    /\ jpc[w] = "zpopmin"
    /\ IF jobsQueue = {}
       THEN /\ currentJob' = [currentJob EXCEPT ![w] = NoJob]
            /\ jpc' = [jpc EXCEPT ![w] = "idle"]
            /\ UNCHANGED <<jobsQueue, job>>
       ELSE \E e \in ZMin(jobsQueue) :
               /\ jobsQueue' = jobsQueue \ {e}
               /\ job' = [job EXCEPT ![w] = [e.m EXCEPT !.status = "RUNNING",
                                                       !.startedAt = DateObj(now)]]
               /\ jpc' = [jpc EXCEPT ![w] = "lock"]
               /\ UNCHANGED currentJob
    /\ UNCHANGED <<now, qvars, svars, wvars, avars, cvars, mvars, pvars, enqueues, jobsScheduled, jobsDlq, jobStore, jobStatus, jobLocks,
                   nextJobId, dueJobs, retryCalls, executions, jobCalls>>

\* getNextJob: setJobLock(job.id), SET NX EX 300, its result unused; the job
\* is returned and becomes this.currentJob.
getNextJob_setJobLock(w) ==
    /\ jpc[w] = "lock"
    /\ jobLocks' = IF jobLocks[job[w].id] <= now
                   THEN [jobLocks EXCEPT ![job[w].id] = now + LockSeconds]
                   ELSE jobLocks
    /\ currentJob' = [currentJob EXCEPT ![w] = job[w]]
    /\ job' = [job EXCEPT ![w] = NoJob]
    /\ jpc' = [jpc EXCEPT ![w] = "handler"]
    /\ UNCHANGED <<now, qvars, svars, wvars, avars, cvars, mvars, pvars, enqueues, jobsQueue, jobsScheduled, jobsDlq, jobStore, jobStatus,
                   nextJobId, dueJobs, retryCalls, executions, jobCalls>>

\* getJobHandler: the types of its switch; any other type throws.
SupportedJobTypes == {"cleanup_storage", "process_email", "generate_analytics",
                      "index_search"}

\* The handlers that can throw.  handleEmail, analyticsHandler and
\* indexSearchHandler catch every error, those of their validation included,
\* and return {success: false, error}.
handlerThrows(type) == type = "cleanup_storage"

\* What processJob's catch receives: the error of getJobHandler, or the
\* handler's.
processJob_error(type) ==
    IF type \notin SupportedJobTypes THEN "Failed to load handler for job type"
    ELSE "handler"

\* handleEmail(data, env): validateEmailData throws inside the try, and the
\* catch returns the error's message.
handleEmail(data) ==
    IF data.valid THEN [success |-> TRUE, error |-> "undefined"]
    ELSE [success |-> FALSE, error |-> "At least one recipient is required"]

\* indexSearchHandler(data): validateIndexData throws inside the try, and the
\* catch returns the error's message.
indexSearchHandler(data) ==
    IF data.valid THEN [success |-> TRUE, error |-> "undefined"]
    ELSE [success |-> FALSE, error |-> "Unsupported language"]

\* handler(job.data, job.env) of a handler that returns.
handlerResult(type, data) ==
    CASE type = "process_email" -> handleEmail(data)
      [] type = "index_search" -> indexSearchHandler(data)
      [] OTHER -> [success |-> TRUE, error |-> "undefined"]

\* processJob, the handler returns: handleCompletedJob sets status COMPLETED,
\* completedAt and result and calls updateJobStatus.
processJob_returns(w) ==
    /\ jpc[w] = "handler"
    /\ currentJob[w].type \in SupportedJobTypes
    /\ LET j == [currentJob[w] EXCEPT !.status = "COMPLETED", !.completedAt = DateObj(now),
                                      !.result = handlerResult(currentJob[w].type,
                                                               currentJob[w].data)]
       IN /\ currentJob' = [currentJob EXCEPT ![w] = j]
          /\ updateJobStatus(j)
    /\ executions' = [executions EXCEPT ![currentJob[w].data.key] = @ + 1]
    /\ jpc' = [jpc EXCEPT ![w] = "idle"]
    /\ UNCHANGED <<now, qvars, svars, wvars, avars, cvars, mvars, pvars, enqueues, jobsQueue, jobsScheduled, jobsDlq, jobStore, jobLocks,
                   nextJobId, dueJobs, job, retryCalls, jobCalls>>

\* processJob, the handler throws: handleFailedJob sets status FAILED, counts
\* the attempt, and either calls retryJob, which calls
\* scheduler.scheduleJob(job.type, job.data, {priority, scheduledFor:
\* nextAttempt, retryStrategy, tags}), or calls updateJobStatus.
processJob_throws(w) ==
    /\ jpc[w] = "handler"
    /\ currentJob[w].type \notin SupportedJobTypes \/ handlerThrows(currentJob[w].type)
    /\ LET j == [currentJob[w] EXCEPT !.status = "FAILED",
                                      !.error = processJob_error(currentJob[w].type),
                                      !.attempts = @ + 1]
       IN /\ currentJob' = [currentJob EXCEPT ![w] = j]
          /\ IF jobShouldRetry(j)
             THEN /\ nextJobId <= MaxJobs
                  /\ LET nextAttempt == DateObj(now + backoffDelay(j))
                         n == scheduleJob_job(nextJobId, j.type, j.data, j.priority, nextAttempt,
                                              j.retryStrategy, 0, now)
                     IN saveJob(n, nextAttempt)
                  /\ nextJobId' = nextJobId + 1
                  /\ jpc' = [jpc EXCEPT ![w] = "idle"]
                  /\ UNCHANGED jobStatus
             ELSE /\ updateJobStatus(j)
                  /\ jpc' = [jpc EXCEPT ![w] = "dlq"]
                  /\ UNCHANGED <<jobsQueue, jobsScheduled, jobStore, nextJobId>>
    /\ executions' = [executions EXCEPT ![currentJob[w].data.key] = @ + 1]
    /\ UNCHANGED <<now, qvars, svars, wvars, avars, cvars, mvars, pvars, enqueues, jobsDlq, jobLocks, dueJobs, job, retryCalls, jobCalls>>

\* JobWorker.moveToDeadLetterQueue: zadd("jobs:dlq", {score: Date.now(),
\* member: JSON.stringify(job)}).
moveToDeadLetterQueue_zadd(w) ==
    /\ jpc[w] = "dlq"
    /\ jobsDlq' = ZAdd(jobsDlq, JobStringify(currentJob[w]), now)
    /\ jpc' = [jpc EXCEPT ![w] = "idle"]
    /\ UNCHANGED <<now, qvars, svars, wvars, avars, cvars, mvars, pvars, enqueues, jobsQueue, jobsScheduled, jobStore, jobStatus, jobLocks,
                   nextJobId, currentJob, dueJobs, job, retryCalls, executions, jobCalls>>

\* JobWorker.stop(): isRunning = false, and with a current job
\* handleFailedJob(this.currentJob, new Error("Worker stopped")): status
\* FAILED, the attempt counted, then retryJob or updateJobStatus.
stop(w) ==
    /\ isRunning[w]
    /\ isRunning' = [isRunning EXCEPT ![w] = FALSE]
    /\ IF currentJob[w] = NoJob
       THEN UNCHANGED <<currentJob, stopPc, stopJob, jobsQueue, jobsScheduled, jobStore,
                        jobStatus, nextJobId>>
       ELSE LET j == [currentJob[w] EXCEPT !.status = "FAILED", !.error = "Worker stopped",
                                           !.attempts = @ + 1]
            IN /\ currentJob' = [currentJob EXCEPT ![w] = j]
               /\ stopJob' = [stopJob EXCEPT ![w] = j]
               /\ IF jobShouldRetry(j)
                  THEN /\ nextJobId <= MaxJobs
                       /\ LET nextAttempt == DateObj(now + backoffDelay(j))
                              n == scheduleJob_job(nextJobId, j.type, j.data, j.priority,
                                                   nextAttempt, j.retryStrategy, 0, now)
                          IN saveJob(n, nextAttempt)
                       /\ nextJobId' = nextJobId + 1
                       /\ UNCHANGED <<jobStatus, stopPc>>
                  ELSE /\ updateJobStatus(j)
                       /\ stopPc' = [stopPc EXCEPT ![w] = "dlq"]
                       /\ UNCHANGED <<jobsQueue, jobsScheduled, jobStore, nextJobId>>
    /\ UNCHANGED <<now, qvars, svars, avars, cvars, mvars, pvars, enqueues, jobsDlq, jobLocks, jpc, dueJobs, job,
                   retryCalls, executions, jobCalls>>

\* stop(), handleFailedJob: moveToDeadLetterQueue of the job it failed.  The
\* job is the object the loop holds as long as the loop has leased no other.
stop_moveToDeadLetterQueue(w) ==
    /\ stopPc[w] = "dlq"
    /\ LET j == IF currentJob[w] # NoJob /\ currentJob[w].id = stopJob[w].id
                THEN currentJob[w] ELSE stopJob[w]
       IN jobsDlq' = ZAdd(jobsDlq, JobStringify(j), now)
    /\ stopPc' = [stopPc EXCEPT ![w] = "idle"]
    /\ UNCHANGED <<now, qvars, svars, avars, cvars, mvars, pvars, enqueues, jobsQueue, jobsScheduled, jobStore,
                   jobStatus, jobLocks, nextJobId, jpc, currentJob, dueJobs, job, retryCalls,
                   executions, jobCalls, isRunning, stopJob>>

\* JobScheduler.retryJob(jobId), called by a client of the scheduler.
retryJob(jobId) ==
    /\ retryCalls < MaxRetryCalls
    /\ retryCalls' = retryCalls + 1
    /\ jobStore[jobId] # NoJob
    /\ LET j == jobStore[jobId]
           retryDelay == calculateRetryDelay(j)
       IN IF retryDelay = -1
          THEN \* moveToDeadLetterQueue(job)
               /\ jobsDlq' = ZAdd(jobsDlq, JobStringify([j EXCEPT !.status = "FAILED"]), now)
               /\ UNCHANGED <<jobsQueue, jobsScheduled, jobStore>>
          ELSE LET r == [j EXCEPT !.scheduledFor = DateObj(now + retryDelay),
                                  !.attempts = @ + 1,
                                  !.status = "SCHEDULED"]
               IN /\ saveJob(r, r.scheduledFor)
                  /\ UNCHANGED jobsDlq
    /\ UNCHANGED <<now, qvars, svars, wvars, avars, cvars, mvars, pvars, enqueues, jobStatus, jobLocks, nextJobId, jpc, currentJob, dueJobs,
                   job, executions, jobCalls>>

\* JS numbers: the integers and NaN, and null as JSON.stringify writes NaN.
NaN == -2147483647
JsonNull == -2147483646
\* Math.max and Math.min of two numbers: NaN when either is NaN.
MathMax(a, b) == IF a = NaN \/ b = NaN THEN NaN ELSE IF a > b THEN a ELSE b
MathMin(a, b) == IF a = NaN \/ b = NaN THEN NaN ELSE IF a < b THEN a ELSE b
\* JSON.stringify of a number.
stringifyNumber(x) == IF x = NaN THEN JsonNull ELSE x

\* updateJobProgress(jobId, progress), first await: getJobById.  An unknown
\* id ends the call.
updateJobProgress_getJobById(jobId, progress) ==
    /\ progressCall = NoProgress
    /\ progressCalls < MaxProgressCalls
    /\ progressCalls' = progressCalls + 1
    /\ progressCall' = IF jobStore[jobId] = NoJob THEN NoProgress
                       ELSE [jobId |-> jobId, job |-> jobStore[jobId], progress |-> progress]
    /\ UNCHANGED <<now, qvars, jvars, svars, wvars, avars, cvars, mvars, termScan, xvars>>

\* updateJobProgress, second await: job.progress = Math.min(Math.max(progress,
\* 0), 100), then set(`job:${jobId}`, JSON.stringify(job)) of the job read
\* before.
updateJobProgress_set ==
    /\ progressCall # NoProgress
    /\ LET clamped == MathMin(MathMax(progressCall.progress, 0), 100)
           j == [progressCall.job EXCEPT !.progress = stringifyNumber(clamped)]
       IN jobStore' = [jobStore EXCEPT ![progressCall.jobId] = j]
    /\ progressCall' = NoProgress
    /\ UNCHANGED <<now, qvars, svars, wvars, avars, cvars, mvars, progressCalls, termScan, xvars,
                   enqueues, jobsQueue, jobsScheduled, jobsDlq, jobStatus, jobLocks, nextJobId, jpc,
                   currentJob, dueJobs, job, retryCalls, executions, jobCalls>>

\* The types updateDocumentMetadata looks a document up under, in its order.
MetadataTypes == <<"email", "thread", "attachment", "document_chunk">>

\* text.slice(i, i + chunkSize) for i = 0, chunkSize, ... below text.length.
RECURSIVE splitIntoChunks(_, _)
splitIntoChunks(text, chunkSize) ==
    IF text = <<>> THEN <<>>
    ELSE IF Len(text) <= chunkSize THEN <<text>>
    ELSE <<SubSeq(text, 1, chunkSize)>> \o
         splitIntoChunks(SubSeq(text, chunkSize + 1, Len(text)), chunkSize)

\* The id of a whole document, and `${documentId}_chunk_${position}`: the
\* document's id followed by a suffix that names the position.
wholeId(documentId) == [id |-> documentId, suffix |-> "none", position |-> 0]
chunkId(documentId, position) == [id |-> documentId, suffix |-> "_chunk_", position |-> position]

\* SearchIndexer.indexDocument of a whole document that succeeds: of what
\* its pipeline writes, the field of search:metadata:{type} is the one
\* updateDocumentMetadata reads.
indexDocument_pipeline(id, type) ==
    /\ metadataKeys' = metadataKeys \cup {<<type, wholeId(id)>>}
    /\ UNCHANGED <<now, qvars, jvars, svars, wvars, avars, cvars, mvars, progressCall,
                   progressCalls, termScan, enqueueCall, indexingCall>>

\* indexing({jobId, documentId, content, options}) up to splitIntoChunks.
\* chunkSize = 0 stands for options.chunkSize absent.
indexing_splitIntoChunks(documentId, content, chunkSize) ==
    /\ indexingCall.stage \notin {"chunks", "metadata"}
    /\ indexingCall.calls < MaxIndexingCalls
    /\ LET size == IF chunkSize = 0 THEN DefaultChunkSize ELSE chunkSize
           chunks == splitIntoChunks(content, size)
           call == [NoIndexing EXCEPT !.documentId = documentId, !.content = content,
                                      !.calls = indexingCall.calls + 1]
       IN indexingCall' =
            IF content = <<>>
            THEN [call EXCEPT !.stage = "threw", !.error = "Content is required for indexing"]
            ELSE IF Len(chunks) = 0
            THEN [call EXCEPT !.stage = "threw", !.error = "No content chunks generated"]
            ELSE [call EXCEPT !.stage = "chunks", !.chunks = chunks]
    /\ UNCHANGED <<now, qvars, jvars, svars, wvars, avars, cvars, mvars, progressCall,
                   progressCalls, termScan, enqueueCall, metadataKeys>>

\* One turn of the loop of indexing: updateJobProgress (of a job id no record
\* is stored under: no write), generateEmbedding and indexChunk, whose
\* indexDocument of the document_chunk succeeds.
indexing_indexChunk ==
    /\ indexingCall.stage = "chunks"
    /\ LET i == indexingCall.i
       IN /\ metadataKeys' = metadataKeys \cup
                                {<<"document_chunk", chunkId(indexingCall.documentId, i)>>}
          /\ indexingCall' = [indexingCall EXCEPT
                                !.i = i + 1,
                                !.stage = IF i + 1 < Len(indexingCall.chunks)
                                          THEN "chunks" ELSE "metadata"]
    /\ UNCHANGED <<now, qvars, jvars, svars, wvars, avars, cvars, mvars, progressCall,
                   progressCalls, termScan, enqueueCall>>

\* The end of indexing: SearchIndexer.updateDocumentMetadata(documentId, ...)
\* looks documentId up with hexists in search:metadata:{type} for each type
\* and throws when no hash has it; indexing wraps what it throws.
indexing_updateDocumentMetadata ==
    /\ indexingCall.stage = "metadata"
    /\ LET documentId == indexingCall.documentId
           found == {k \in 1..Len(MetadataTypes) :
                       <<MetadataTypes[k], wholeId(documentId)>> \in metadataKeys}
       IN IF found = {}
          THEN /\ indexingCall' = [indexingCall EXCEPT
                                     !.stage = "threw",
                                     !.error = "Indexing failed for document"]
               /\ UNCHANGED metadataKeys
          ELSE /\ indexingCall' = [indexingCall EXCEPT !.stage = "returned"]
               /\ metadataKeys' = metadataKeys \cup
                    {<<MetadataTypes[CHOOSE k \in found : \A l \in found : k <= l],
                       wholeId(documentId)>>}
    /\ UNCHANGED <<now, qvars, jvars, svars, wvars, avars, cvars, mvars, progressCall,
                   progressCalls, termScan, enqueueCall>>

\* MemoryCache ---------------------------------------------------------------

CacheStrategies == {"lru", "mru", "lfu", "fifo"}
CacheKeys == {"k1", "k2", "k3"}
\* The values of the model are told apart by the size getObjectSize measures.
CacheValues == {[size |-> n] : n \in {1, 2, 4}}

\* new MemoryCache(config): strategy "undefined" stands for config.strategy
\* absent.
MemoryCache(strategy) ==
    /\ cacheStrategy = "none"
    /\ cacheStrategy' = IF strategy = "undefined" THEN "lru" ELSE strategy
    /\ cache' = <<>>
    /\ cacheSize' = 0
    /\ UNCHANGED <<now, qvars, jvars, svars, wvars, avars, cvars, pvars, cacheCalls>>

\* Date.now() advances.
CacheTick ==
    /\ now < Epoch + MaxCacheClock
    /\ now' = now + 1
    /\ UNCHANGED <<qvars, jvars, svars, wvars, avars, cvars, mvars, pvars>>

calculateSize(value) == value.size
isExpired(entry, clock) == entry.expiresAt <= clock

\* Map.get, Map.delete and Map.set on the entries in insertion order: set of
\* a key the map holds keeps the key's place.
cacheHas(c, key) == \E k \in 1..Len(c) : c[k].key = key
cacheGet(c, key) == c[CHOOSE k \in 1..Len(c) : c[k].key = key]
cacheDelete(c, key) == SelectSeq(c, LAMBDA e : e.key # key)
cacheSet(c, key, entry) ==
    IF cacheHas(c, key)
    THEN [k \in 1..Len(c) |-> IF c[k].key = key THEN entry ELSE c[k]]
    ELSE Append(c, entry)

\* The first entry, in insertion order, that is strictly better than the
\* start value and than every entry before it, and not worse than any after:
\* what a loop keeping the running best with a strict comparison returns.
\* "null" when no entry beats the start value.
firstLeast(c, field, start) ==
    LET ks == {k \in 1..Len(c) :
                 /\ c[k][field] < start
                 /\ \A l \in 1..Len(c) : c[k][field] <= c[l][field]}
    IN IF ks = {} THEN "null" ELSE c[CHOOSE k \in ks : \A l \in ks : k <= l].key
firstGreatest(c, field, start) ==
    LET ks == {k \in 1..Len(c) :
                 /\ c[k][field] > start
                 /\ \A l \in 1..Len(c) : c[k][field] >= c[l][field]}
    IN IF ks = {} THEN "null" ELSE c[CHOOSE k \in ks : \A l \in ks : k <= l].key

\* getKeyToEvict(): lru starts from oldestAccess = Date.now(), mru from
\* newestAccess = 0, lfu from lowestCount = Infinity (any count is below
\* it); fifo and the default take the first key.
getKeyToEvict(c, strategy, clock) ==
    IF Len(c) = 0 THEN "null"
    ELSE CASE strategy = "lru" -> firstLeast(c, "lastAccessed", clock)
           [] strategy = "mru" -> firstGreatest(c, "lastAccessed", 0)
           [] strategy = "lfu" -> firstLeast(c, "hitCount", MaxCacheCalls + 1)
           [] OTHER -> c[1].key

\* ensureSpace(requiredSize): evicts while the size statistic plus
\* requiredSize exceeds config.maxSize and the cache holds entries; stops
\* when getKeyToEvict returns no key.  Yields the cache and the statistic.
RECURSIVE ensureSpace(_, _, _, _, _)
ensureSpace(c, size, requiredSize, strategy, clock) ==
    IF size + requiredSize > CacheMaxSize /\ Len(c) > 0
    THEN LET keyToRemove == getKeyToEvict(c, strategy, clock)
         IN IF keyToRemove = "null" THEN [cache |-> c, size |-> size]
            ELSE ensureSpace(cacheDelete(c, keyToRemove),
                             size - cacheGet(c, keyToRemove).size,
                             requiredSize, strategy, clock)
    ELSE [cache |-> c, size |-> size]

\* set(key, value, ttl): ttl = 0 stands for ttl absent.  A value larger than
\* config.maxSize returns false.
cacheSetCall(key, value, ttl) ==
    /\ cacheStrategy # "none"
    /\ cacheCalls < MaxCacheCalls
    /\ cacheCalls' = cacheCalls + 1
    /\ LET size == calculateSize(value)
           space == ensureSpace(cache, cacheSize, size, cacheStrategy, now)
           entry == [key |-> key, value |-> value,
                     expiresAt |-> now + (IF ttl = 0 THEN CacheTtl ELSE ttl),
                     hitCount |-> 0, lastAccessed |-> now, size |-> size]
       IN IF size > CacheMaxSize
          THEN UNCHANGED <<cache, cacheSize>>
          ELSE /\ cache' = cacheSet(space.cache, key, entry)
               /\ cacheSize' = space.size + size
    /\ UNCHANGED <<now, qvars, jvars, svars, wvars, avars, cvars, pvars, cacheStrategy>>

\* get(key): a miss, an expired entry (deleted), or a hit, which
\* updateAccessPattern counts and stamps.
cacheGetCall(key) ==
    /\ cacheStrategy # "none"
    /\ cacheCalls < MaxCacheCalls
    /\ cacheCalls' = cacheCalls + 1
    /\ IF ~cacheHas(cache, key)
       THEN UNCHANGED <<cache, cacheSize>>
       ELSE LET entry == cacheGet(cache, key)
            IN IF isExpired(entry, now)
               THEN /\ cache' = cacheDelete(cache, key)
                    /\ cacheSize' = cacheSize - entry.size
               ELSE /\ cache' = cacheSet(cache, key,
                                  [entry EXCEPT !.hitCount = @ + 1, !.lastAccessed = now])
                    /\ UNCHANGED cacheSize
    /\ UNCHANGED <<now, qvars, jvars, svars, wvars, avars, cvars, pvars, cacheStrategy>>

\* delete(key).
cacheDeleteCall(key) ==
    /\ cacheStrategy # "none"
    /\ cacheCalls < MaxCacheCalls
    /\ cacheCalls' = cacheCalls + 1
    /\ IF cacheHas(cache, key)
       THEN /\ cache' = cacheDelete(cache, key)
            /\ cacheSize' = cacheSize - cacheGet(cache, key).size
       ELSE UNCHANGED <<cache, cacheSize>>
    /\ UNCHANGED <<now, qvars, jvars, svars, wvars, avars, cvars, pvars, cacheStrategy>>

\* clear().
cacheClearCall ==
    /\ cacheStrategy # "none"
    /\ cacheCalls < MaxCacheCalls
    /\ cacheCalls' = cacheCalls + 1
    /\ cache' = <<>>
    /\ cacheSize' = 0
    /\ UNCHANGED <<now, qvars, jvars, svars, wvars, avars, cvars, pvars, cacheStrategy>>

\* The sum of the sizes of the entries held.
RECURSIVE heldSize(_)
heldSize(c) == IF c = <<>> THEN 0 ELSE Head(c).size + heldSize(Tail(c))

\* The clock advances between AlertManager calls.
AlertTick ==
    /\ now < Epoch + MaxJobClock
    /\ now' = now + 1
    /\ UNCHANGED <<qvars, jvars, svars, wvars, avars, cvars, mvars, pvars>>

\* An alert as its callers build it.
newAlert(id, severity, st, clock) ==
    [id |-> id, severity |-> severity, timestamp |-> clock, status |-> st,
     acknowledged |-> FALSE, acknowledgedBy |-> "undefined", acknowledgedAt |-> 0]

\* createAlert(alert): one pipeline of hmset(search:alert:{id}, {...alert,
\* acknowledged: alert.acknowledged.toString()}) and zadd(search:alerts).
createAlert_pipeline(alert) ==
    /\ alertHash' = [alertHash EXCEPT ![alert.id] =
                        [alert EXCEPT !.acknowledged = IF @ THEN "true" ELSE "false"]]
    /\ alertIndex' = ZAdd(alertIndex, alert.id, alert.timestamp)

\* createAlert called by a client of AlertManager.
createAlert(id, severity, st) ==
    /\ alertCalls < MaxAlertCalls
    /\ alertCalls' = alertCalls + 1
    /\ createAlert_pipeline(newAlert(id, severity, st, now))
    /\ UNCHANGED <<now, qvars, jvars, svars, wvars, cvars, mvars, pvars, ackCall>>

\* getAlerts -> generateSystemAlerts when the index health is not healthy:
\* createAlert of an ACTIVE alert with id `index_${now}`.
generateSystemAlerts(unhealthy) ==
    /\ alertCalls < MaxAlertCalls
    /\ alertCalls' = alertCalls + 1
    /\ createAlert_pipeline(newAlert(SystemAlertId(now),
                                     IF unhealthy THEN "CRITICAL" ELSE "MEDIUM",
                                     "ACTIVE", now))
    /\ UNCHANGED <<now, qvars, jvars, svars, wvars, cvars, mvars, pvars, ackCall>>

\* acknowledgeAlert(alertId, userId), first await: exists(key); a missing
\* alert throws.
acknowledgeAlert_exists(alertId, userId) ==
    /\ ackCall = NoAck
    /\ alertCalls < MaxAlertCalls
    /\ alertCalls' = alertCalls + 1
    /\ ackCall' = IF alertHash[alertId] # NoAlert
                  THEN [alertId |-> alertId, userId |-> userId]
                  ELSE NoAck
    /\ UNCHANGED <<now, qvars, jvars, svars, wvars, cvars, mvars, pvars, alertHash, alertIndex>>

\* acknowledgeAlert, second await: hmset(key, {acknowledged: "true",
\* acknowledgedBy, acknowledgedAt, status: ACKNOWLEDGED}).
acknowledgeAlert_hmset ==
    /\ ackCall # NoAck
    /\ alertHash' = [alertHash EXCEPT ![ackCall.alertId] =
                        [@ EXCEPT !.acknowledged = "true",
                                  !.acknowledgedBy = ackCall.userId,
                                  !.acknowledgedAt = now,
                                  !.status = "ACKNOWLEDGED"]]
    /\ ackCall' = NoAck
    /\ UNCHANGED <<now, qvars, jvars, svars, wvars, cvars, mvars, pvars, alertIndex, alertCalls>>

\* An object is uploaded, a row inserted or a cache key set.  timestamp is
\* LastModified / customMetadata.uploadedAt, createdAt or the hash field
\* "timestamp", 0 when the item carries none; ttl is -1 for a key without
\* expiry.
putItem(kind, stamped, ttl) ==
    /\ cleanupCalls < MaxCleanupCalls
    /\ Cardinality(items) < MaxItems
    /\ cleanupCalls' = cleanupCalls + 1
    /\ items' = items \cup {[kind |-> kind, id |-> cleanupCalls,
                             timestamp |-> IF stamped THEN now ELSE 0, ttl |-> ttl]}
    /\ UNCHANGED <<now, qvars, jvars, svars, wvars, avars, mvars, pvars, cleanupCall>>

\* shouldCleanupObject(object, options), options.pattern absent.
shouldCleanupObject(object, options) ==
    IF object.timestamp = 0 THEN FALSE
    ELSE options.olderThan # 0 /\ object.timestamp < options.olderThan

\* cleanupDatabase: the documents find(query) returns; query is {} when
\* options.olderThan is absent, and $lt does not match a missing field.
cleanupDatabase_find(doc, options) ==
    IF options.olderThan # 0
    THEN doc.timestamp # 0 /\ doc.timestamp < options.olderThan
    ELSE TRUE

\* isKeyOlderThan(redis, key, date): no "timestamp" field counts as older.
isKeyOlderThan(key, date) ==
    IF key.timestamp = 0 THEN TRUE ELSE key.timestamp < date

\* cleanupCache: the condition under which a scanned key is deleted.
cleanupCache_deletes(key, options) ==
    key.ttl = -1 \/ (options.olderThan # 0 /\ isKeyOlderThan(key, options.olderThan))

\* cleanup(options) -> processCleanup: cleanupStorage, cleanupDatabase or
\* cleanupCache by the prefix of options.path; olderThan = 0 stands for
\* options.olderThan absent.
cleanup(path, olderThan, dryRun) ==
    /\ cleanupCalls < MaxCleanupCalls
    /\ cleanupCalls' = cleanupCalls + 1
    /\ cleanupCall' = [path |-> path, olderThan |-> olderThan, dryRun |-> dryRun]
    /\ LET options == [olderThan |-> olderThan]
           doomed == CASE path = "storage://" ->
                            {i \in items : i.kind = "object" /\ shouldCleanupObject(i, options)}
                       [] path = "db://" ->
                            {i \in items : i.kind = "row" /\ cleanupDatabase_find(i, options)}
                       [] path = "cache://" ->
                            {i \in items : i.kind = "key" /\ cleanupCache_deletes(i, options)}
                       [] OTHER -> {}
       IN items' = IF dryRun THEN items ELSE items \ doomed
    /\ UNCHANGED <<now, qvars, jvars, svars, wvars, avars, mvars, pvars>>

\* QueueManager.cleanupStorageTask: an object without
\* customMetadata.uploadedAt gets new Date(0).
cleanupStorageTask(olderThan, dryRun) ==
    /\ cleanupCalls < MaxCleanupCalls
    /\ cleanupCalls' = cleanupCalls + 1
    /\ cleanupCall' = [path |-> "task", olderThan |-> olderThan, dryRun |-> dryRun]
    /\ LET uploadedAt(object) == IF object.timestamp = 0 THEN 0 ELSE object.timestamp
           doomed == {i \in items : i.kind = "object" /\ uploadedAt(i) < olderThan}
       IN items' = IF dryRun THEN items ELSE items \ doomed
    /\ UNCHANGED <<now, qvars, jvars, svars, wvars, avars, mvars, pvars>>

JNext ==
    \/ JobTick
    \/ \E p \in JobPriorities, d \in {0, 1}, rs \in RetryStrategyOptions : enqueue(p, d, rs)
    \/ \E w \in JobWorkers : moveScheduledJobs_zrange(w)
    \/ \E w \in JobWorkers : moveScheduledJobs_pipeline(w)
    \/ \E w \in JobWorkers : getNextJob_zpopmin(w)
    \/ \E w \in JobWorkers : getNextJob_setJobLock(w)
    \/ \E w \in JobWorkers : processJob_returns(w)
    \/ \E w \in JobWorkers : processJob_throws(w)
    \/ \E w \in JobWorkers : moveToDeadLetterQueue_zadd(w)
    \/ \E i \in JobIds : retryJob(i)

vars == <<now, qvars, jvars, svars, wvars, avars, cvars, mvars, pvars>>

QNext ==
    \/ Tick
    \/ \E p \in Priorities, d \in {0, FutureDelay}, m \in 0..2 : enqueueTask(p, d, m)
    \/ \E w \in Workers : processNextTask_zrange(w)
    \/ \E w \in Workers : processNextTask_zrem(w)
    \/ \E w \in Workers : processNextTask_zadd(w)
    \/ \E w \in Workers : executeTask_throws(w)
    \/ \E w \in Workers : executeTask_returns(w)
    \/ \E w \in Workers : finalizeTask_status(w)
    \/ \E w \in Workers : handleTaskCompletion(w)
    \/ \E w \in Workers : catchBlock_status(w)

Spec == Init /\ [][QNext]_vars

SpecJobs == Init /\ [][JNext]_vars

\* processNextTask fails between its Redis commands: the zrem or the zadd
\* it awaits rejects (or the worker is stopped there); the catch of
\* processNextTask logs and rethrows, and the call is over.
processNextTask_fails(w) ==
    /\ pc[w] \in {"zrem", "zadd"}
    /\ pc' = [pc EXCEPT ![w] = "idle"]
    /\ task' = [task EXCEPT ![w] = NoTask]
    /\ result' = [result EXCEPT ![w] = NoEntry]
    /\ leaseNow' = [leaseNow EXCEPT ![w] = 0]
    /\ UNCHANGED <<jvars, svars, wvars, avars, cvars, mvars, pvars>>
    /\ UNCHANGED <<now, queue, processing, failed, status, nextId, calls>>

\* QueueManager against a Redis whose commands may fail.
CNext ==
    \/ Tick
    \/ \E m \in 1..2 : enqueueTask("normal", 0, m)
    \/ \E w \in Workers : processNextTask_zrange(w)
    \/ \E w \in Workers : processNextTask_zrem(w)
    \/ \E w \in Workers : processNextTask_zadd(w)
    \/ \E w \in Workers : processNextTask_fails(w)
    \/ \E w \in Workers : executeTask_throws(w)
    \/ \E w \in Workers : executeTask_returns(w)
    \/ \E w \in Workers : finalizeTask_status(w)
    \/ \E w \in Workers : handleTaskCompletion(w)
    \/ \E w \in Workers : catchBlock_status(w)

SpecCrash == Init /\ [][CNext]_vars

\* QueueManager or JobScheduler with JobWorker.  The two share no Redis key
\* and no object, so a run of one next to the other adds nothing to either:
\* a run here uses the one or the other.
QueueUntouched == nextId = 1
JobsUntouched == nextJobId = 1 /\ jobCalls = 0
ANext ==
    \/ /\ JobsUntouched
       /\ \/ Tick
          \/ \E m \in 0..2 : enqueueTask("normal", 0, m)
          \/ \E w \in Workers : processNextTask_zrange(w)
          \/ \E w \in Workers : processNextTask_zrem(w)
          \/ \E w \in Workers : processNextTask_zadd(w)
          \/ \E w \in Workers : executeTask_throws(w)
          \/ \E w \in Workers : executeTask_returns(w)
          \/ \E w \in Workers : finalizeTask_status(w)
          \/ \E w \in Workers : handleTaskCompletion(w)
          \/ \E w \in Workers : catchBlock_status(w)
    \/ /\ QueueUntouched
       /\ \/ JobTick
          \/ \E d \in {0, 1}, rs \in RetryStrategyOptions : enqueue("NORMAL", d, rs)
          \/ \E w \in JobWorkers : moveScheduledJobs_zrange(w)
          \/ \E w \in JobWorkers : moveScheduledJobs_pipeline(w)
          \/ \E w \in JobWorkers : getNextJob_zpopmin(w)
          \/ \E w \in JobWorkers : getNextJob_setJobLock(w)
          \/ \E w \in JobWorkers : processJob_returns(w)
          \/ \E w \in JobWorkers : processJob_throws(w)
          \/ \E w \in JobWorkers : moveToDeadLetterQueue_zadd(w)
          \/ \E i \in JobIds : retryJob(i)

SpecAttempts == Init /\ [][ANext]_vars

\* QueueManager with callers that pass a type outside TaskType or a
\* maxAttempts below 1.
VNext ==
    \/ Tick
    \/ \E ty \in {"process_email", "no_such_type"}, m \in {-1, 1} :
          enqueueTaskOf(ty, "normal", 0, m, 0)
    \/ \E w \in Workers : processNextTask_zrange(w)
    \/ \E w \in Workers : processNextTask_zrem(w)
    \/ \E w \in Workers : processNextTask_zadd(w)
    \/ \E w \in Workers : executeTask_throws(w)
    \/ \E w \in Workers : executeTask_returns(w)
    \/ \E w \in Workers : finalizeTask_status(w)
    \/ \E w \in Workers : handleTaskCompletion(w)
    \/ \E w \in Workers : catchBlock_status(w)

SpecInvalid == Init /\ [][VNext]_vars

\* QueueManager with tasks that name a dependent task in their metadata.
HNext ==
    \/ Tick
    \/ \E m \in 1..2, deps \in {0, 1} : enqueueTaskWith("normal", 0, m, deps)
    \/ \E w \in Workers : processNextTask_zrange(w)
    \/ \E w \in Workers : processNextTask_zrem(w)
    \/ \E w \in Workers : processNextTask_zadd(w)
    \/ \E w \in Workers : executeTask_throws(w)
    \/ \E w \in Workers : executeTask_returns(w)
    \/ \E w \in Workers : finalizeTask_status(w)
    \/ \E w \in Workers : handleTaskCompletion(w)
    \/ \E w \in Workers : handleTaskCompletion_enqueue(w)
    \/ \E w \in Workers : emitTaskMetrics(w)
    \/ \E w \in Workers : catchBlock_status(w)

SpecHook == Init /\ [][HNext]_vars

\* =========================================================================
\* SearchIndexer (src/src/services/search/query.ts, 1296-1765)
\* =========================================================================

\* The clock advances by dt seconds.
LockTick(dt) ==
    /\ now < Epoch + MaxLockTicks * dt
    /\ now' = now + dt
    /\ UNCHANGED <<qvars, jvars, svars, wvars, avars, cvars, mvars, pvars>>

hlen(h) == Cardinality({i \in DOMAIN h : h[i] # NoDoc})
termKeys == Cardinality({t \in Terms : inverted[t] # {}})

\* Scores are kept in thousandths, rounded down.
\* Math.log(x) for the small integers of the model.
LnMilli(x) ==
    CASE x = 1 -> 0
      [] x = 2 -> 693
      [] x = 3 -> 1098
      [] x = 4 -> 1386
      [] x = 5 -> 1609
      [] OTHER -> 1791

\* Math.sqrt(n).
SqrtMilli(n) == CHOOSE r \in 0..6000 : r * r <= n * 1000000 /\ (r + 1) * (r + 1) > n * 1000000

\* calculateScore: Math.log(1 + frequency) / Math.sqrt(content.length).
calculateScore(frequency, content) ==
    (LnMilli(1 + frequency) * 1000) \div SqrtMilli(contentLength(content))

\* What a finished call leaves in its caller's record.
Finished(d, error) ==
    [NoCall EXCEPT !.op = d.op, !.id = d.id, !.lockId = d.lockId, !.error = error]

\* acquireLock(resourceId): SET search:lock:{id} lockId NX EX 30, and
\* "Failed to acquire lock" when the key is there.  entry is where the call
\* goes on with the lock.
acquireLock(c, op, id, content, language, metadata, entry) ==
    /\ spc[c] = "idle"
    /\ searchCalls < MaxSearchCalls
    /\ searchCalls' = searchCalls + 1
    /\ nextLockId' = nextLockId + 1
    /\ LET call == [NoCall EXCEPT !.op = op, !.id = id, !.content = content,
                                  !.language = language, !.metadata = metadata]
       IN IF LockValue(docLock[id]) = 0
          THEN /\ docLock' = [docLock EXCEPT ![id] =
                                 [value |-> nextLockId, expires |-> now + IndexLockSeconds]]
               /\ sop' = [sop EXCEPT ![c] =
                             [call EXCEPT !.lockId = nextLockId,
                                          !.leaseUntil = now + IndexLockSeconds]]
               /\ spc' = [spc EXCEPT ![c] = entry]
          ELSE /\ sop' = [sop EXCEPT ![c] = Finished(call, "Failed to acquire lock")]
               /\ UNCHANGED <<docLock, spc>>
    /\ UNCHANGED <<now, qvars, jvars, wvars, avars, cvars, mvars, pvars, ivars, optLock, opc, oop, optStats>>

\* indexDocument(document, options), up to the lock.
indexDocument_acquireLock(c, id, content, language) ==
    acquireLock(c, "indexDocument", id, content, language, [folder |-> "inbox"], "index")

\* indexDocument of a document with metadata {folder}.
indexDocument_metadata(c, id, content, language, folder) ==
    acquireLock(c, "indexDocument", id, content, language, [folder |-> folder], "index")

\* deleteDocument(type, id), up to the lock.
deleteDocument_acquireLock(c, id) ==
    acquireLock(c, "deleteDocument", id, <<>>, "en", [folder |-> "undefined"], "delete_get")

\* updateDocumentMetadata(documentId, metadata), up to the lock.
updateDocumentMetadata_acquireLock(c, id) ==
    acquireLock(c, "updateDocumentMetadata", id, <<>>, "en", [folder |-> "undefined"],
                "meta")

\* indexDocument under the lock: validateDocument, updateStats (before the
\* pipeline runs), then pipeline.exec(): hset of the document, one zadd per
\* term, hset of the metadata.  The metadata hset fails when the key is not a
\* hash, and exec throws after the other commands ran.
indexDocument_exec(c) ==
    /\ spc[c] = "index"
    /\ LET d == sop[c]
           tf == calculateTermFrequencies(tokenizeContent(d.content, d.language))
       IN IF d.content = <<>>
          THEN /\ sop' = [sop EXCEPT ![c].error = "Invalid document format"]
               /\ UNCHANGED ivars
          ELSE /\ searchStats' = [documentsCount |-> hlen(docIndex),
                                  termsCount |-> termKeys]
               /\ docIndex' = [docIndex EXCEPT ![d.id] =
                                  [content |-> d.content, timestamp |-> now]]
               /\ inverted' = [t \in Terms |->
                                  IF t \in DOMAIN tf
                                  THEN ZAdd(inverted[t], Member(d.id), calculateScore(tf[t], d.content))
                                  ELSE inverted[t]]
               /\ IF metaIndex.kind = "hash"
                  THEN /\ metaIndex' = [metaIndex EXCEPT !.fields[d.id] =
                                           [folder |-> d.metadata.folder,
                                            lastIndexed |-> now, lastUpdated |-> 0]]
                       /\ UNCHANGED sop
                  ELSE /\ sop' = [sop EXCEPT ![c].error = "WRONGTYPE"]
                       /\ UNCHANGED metaIndex
    /\ spc' = [spc EXCEPT ![c] = "release_get"]
    /\ UNCHANGED <<now, qvars, jvars, wvars, avars, cvars, mvars, pvars, docLock, optLock, nextLockId, opc, oop, optStats, searchCalls>>

\* deleteDocument under the lock: getDocument; without a document the call
\* returns.
deleteDocument_getDocument(c) ==
    /\ spc[c] = "delete_get"
    /\ sop' = [sop EXCEPT ![c].document = docIndex[sop[c].id]]
    /\ spc' = [spc EXCEPT ![c] =
                  IF docIndex[sop[c].id] = NoDoc THEN "release_get" ELSE "delete_exec"]
    /\ UNCHANGED <<now, qvars, jvars, wvars, avars, cvars, mvars, pvars, ivars, docLock, optLock, nextLockId, opc, oop,
                   optStats, searchCalls>>

\* deleteDocument under the lock: pipeline.exec() with the two hdel and one
\* zrem per token of tokenizeContent(document.content), then updateStats.
deleteDocument_exec(c) ==
    /\ spc[c] = "delete_exec"
    /\ LET d == sop[c]
           tokens == tokenizeContent(d.document.content, "en")
           uniqueTokens == {tokens[i] : i \in DOMAIN tokens}
           docs == [docIndex EXCEPT ![d.id] = NoDoc]
           sets == [t \in Terms |->
                       IF t \in uniqueTokens THEN ZRem(inverted[t], Member(d.id))
                       ELSE inverted[t]]
       IN /\ docIndex' = docs
          /\ inverted' = sets
          /\ IF metaIndex.kind = "hash"
             THEN /\ metaIndex' = [metaIndex EXCEPT !.fields[d.id] = NoMeta]
                  /\ searchStats' =
                        [documentsCount |-> hlen(docs),
                         termsCount |-> Cardinality({t \in Terms : sets[t] # {}})]
                  /\ UNCHANGED sop
             ELSE /\ sop' = [sop EXCEPT ![c].error = "WRONGTYPE"]
                  /\ UNCHANGED <<metaIndex, searchStats>>
    /\ spc' = [spc EXCEPT ![c] = "release_get"]
    /\ UNCHANGED <<now, qvars, jvars, wvars, avars, cvars, mvars, pvars, docLock, optLock, nextLockId, opc, oop, optStats, searchCalls>>

\* updateDocumentMetadata under the lock: hexists, then hset of
\* {...metadata, lastUpdated}.
updateDocumentMetadata_hset(c) ==
    /\ spc[c] = "meta"
    /\ LET d == sop[c]
       IN IF metaIndex.kind # "hash"
          THEN /\ sop' = [sop EXCEPT ![c].error = "WRONGTYPE"]
               /\ UNCHANGED metaIndex
          ELSE IF metaIndex.fields[d.id] = NoMeta
          THEN /\ sop' = [sop EXCEPT ![c].error = "Document not found"]
               /\ UNCHANGED metaIndex
          ELSE /\ metaIndex' = [metaIndex EXCEPT !.fields[d.id] =
                                   [folder |-> d.metadata.folder,
                                    lastIndexed |-> 0, lastUpdated |-> now]]
               /\ UNCHANGED sop
    /\ spc' = [spc EXCEPT ![c] = "release_get"]
    /\ UNCHANGED <<now, qvars, jvars, wvars, avars, cvars, mvars, pvars, docIndex, inverted, searchStats, docLock, optLock,
                   nextLockId, opc, oop, optStats, searchCalls>>

\* releaseLock(resourceId, lockId), first command: GET search:lock:{id}.
releaseLock_get(c) ==
    /\ spc[c] = "release_get"
    /\ LET currentLock == LockValue(docLock[sop[c].id])
       IN IF currentLock = sop[c].lockId
          THEN /\ sop' = [sop EXCEPT ![c].currentLock = currentLock]
               /\ spc' = [spc EXCEPT ![c] = "release_del"]
          ELSE /\ sop' = [sop EXCEPT ![c] = Finished(sop[c], sop[c].error)]
               /\ spc' = [spc EXCEPT ![c] = "idle"]
    /\ UNCHANGED <<now, qvars, jvars, wvars, avars, cvars, mvars, pvars, ivars, docLock, optLock, nextLockId, opc, oop,
                   optStats, searchCalls>>

\* releaseLock, second command: DEL search:lock:{id}.
releaseLock_del(c) ==
    /\ spc[c] = "release_del"
    /\ docLock' = [docLock EXCEPT ![sop[c].id] = NoLock]
    /\ sop' = [sop EXCEPT ![c] = Finished(sop[c], sop[c].error)]
    /\ spc' = [spc EXCEPT ![c] = "idle"]
    /\ UNCHANGED <<now, qvars, jvars, wvars, avars, cvars, mvars, pvars, ivars, optLock, nextLockId, opc, oop, optStats, searchCalls>>

\* SearchIndexer with two callers working on one document id.
INext ==
    \/ LockTick(IndexLockSeconds)
    \/ \E c \in Callers, content \in {<<>>, ContentA} :
          indexDocument_acquireLock(c, "d1", content, "en")
    \/ \E c \in Callers : deleteDocument_acquireLock(c, "d1")
    \/ \E c \in Callers : updateDocumentMetadata_acquireLock(c, "d1")
    \/ \E c \in Callers : indexDocument_exec(c)
    \/ \E c \in Callers : deleteDocument_getDocument(c)
    \/ \E c \in Callers : deleteDocument_exec(c)
    \/ \E c \in Callers : updateDocumentMetadata_hset(c)
    \/ \E c \in Callers : releaseLock_get(c)
    \/ \E c \in Callers : releaseLock_del(c)

SpecIndexer == Init /\ [][INext]_vars

\* =========================================================================
\* SearchOptimizer (src/src/services/search/query.ts, 316-384)
\* =========================================================================

\* optimizeIndex, up to the lock: SET search:optimization:lock lockId NX
\* EX 3600.  Without the lock the call returns, through the finally block.
optimizeIndex_acquireOptimizationLock(o) ==
    /\ opc[o] = "idle"
    /\ searchCalls < MaxSearchCalls
    /\ searchCalls' = searchCalls + 1
    /\ nextLockId' = nextLockId + 1
    /\ IF LockValue(optLock) = 0
       THEN /\ optLock' = [value |-> nextLockId, expires |-> now + OptimizationLockSeconds]
            /\ oop' = [oop EXCEPT ![o] =
                          [lockId |-> nextLockId,
                           leaseUntil |-> now + OptimizationLockSeconds,
                           currentLock |-> 0, acquired |-> TRUE]]
            /\ opc' = [opc EXCEPT ![o] = "passes"]
       ELSE /\ oop' = [oop EXCEPT ![o] = [NoRun EXCEPT !.lockId = nextLockId]]
            /\ opc' = [opc EXCEPT ![o] = "release_get"]
            /\ UNCHANGED optLock
    /\ UNCHANGED <<now, qvars, jvars, wvars, avars, cvars, mvars, pvars, ivars, docLock, spc, sop, optStats>>

\* updateTermFrequencies, one entry: tf = score / totalDocs,
\* idf = Math.log(totalDocs + 1), tfidf = tf * idf.
tfidf(score, totalDocs) == ((score \div totalDocs) * LnMilli(totalDocs + 1)) \div 1000

\* updateTermFrequencies: every entry of every posting set is written back
\* with a tf-idf over the entries of its set.
updateTermFrequencies(sets) ==
    [t \in Terms |->
        {[m |-> e.m, s |-> tfidf(e.s, Cardinality(sets[t]))] : e \in sets[t]}]

\* optimizeMetadata: for every key search:metadata:*, hgetall, then del and
\* set(key, JSON.stringify(optimized)): the hash becomes a string.  hgetall
\* of a string fails, which is caught and counted.
optimizeMetadata(meta) ==
    IF meta.kind = "hash" /\ \E i \in DocIds : meta.fields[i] # NoMeta
    THEN [meta EXCEPT !.kind = "string"]
    ELSE meta

\* cleanupUnusedTerms, first await: scan(cursor, {match: search:inverted:*}).
\* A sorted set without members is no key; the scan of the model's few keys
\* ends with cursor 0.
cleanupUnusedTerms_scan(o) ==
    /\ opc[o] = "passes"
    /\ termScan.stage = "idle"
    /\ termScan' = [stage |-> "scanned", keys |-> {t \in Terms : inverted[t] # {}},
                    toDelete |-> {}]
    /\ UNCHANGED <<now, qvars, jvars, svars, wvars, avars, cvars, mvars, progressCall,
                   progressCalls, xvars>>

\* cleanupUnusedTerms, second await: the pipeline of zcard(key) for the batch
\* of keys the scan returned; toDelete are the keys whose count is 0.
cleanupUnusedTerms_zcard(o) ==
    /\ opc[o] = "passes"
    /\ termScan.stage = "scanned"
    /\ LET toDelete == {t \in termScan.keys : Cardinality(inverted[t]) = 0}
       IN termScan' = [stage |-> IF toDelete = {} THEN "done" ELSE "counted",
                       keys |-> {}, toDelete |-> toDelete]
    /\ UNCHANGED <<now, qvars, jvars, svars, wvars, avars, cvars, mvars, progressCall,
                   progressCalls, xvars>>

\* cleanupUnusedTerms, third await: del(...toDelete).
cleanupUnusedTerms_del(o) ==
    /\ opc[o] = "passes"
    /\ termScan.stage = "counted"
    /\ inverted' = [t \in Terms |-> IF t \in termScan.toDelete THEN {} ELSE inverted[t]]
    /\ termScan' = [stage |-> "done", keys |-> {}, toDelete |-> {}]
    /\ UNCHANGED <<now, qvars, jvars, wvars, avars, cvars, mvars, progressCall, progressCalls, xvars,
                   docIndex, metaIndex, searchStats, docLock, optLock, nextLockId, spc, sop,
                   opc, oop, optStats, searchCalls>>

\* optimizeIndex with the lock, after cleanupUnusedTerms (which, run without
\* a concurrent indexer, finds no key to delete): updateTermFrequencies and
\* optimizeMetadata, then updateOptimizationStats.
optimizeIndex_passes(o) ==
    /\ opc[o] = "passes"
    /\ termScan.stage \in {"idle", "done"}
    /\ termScan' = NoScan
    /\ inverted' = updateTermFrequencies(inverted)
    /\ metaIndex' = optimizeMetadata(metaIndex)
    /\ optStats' = [lastOptimizationTime |-> now]
    /\ opc' = [opc EXCEPT ![o] = "release_get"]
    /\ UNCHANGED <<now, qvars, jvars, wvars, avars, cvars, mvars, progressCall, progressCalls, xvars, docIndex, searchStats, docLock, optLock, nextLockId,
                   spc, sop, oop, searchCalls>>

\* releaseOptimizationLock(lockId), first command: GET.
releaseOptimizationLock_get(o) ==
    /\ opc[o] = "release_get"
    /\ LET currentLock == LockValue(optLock)
       IN IF currentLock = oop[o].lockId
          THEN /\ oop' = [oop EXCEPT ![o].currentLock = currentLock]
               /\ opc' = [opc EXCEPT ![o] = "release_del"]
          ELSE /\ oop' = [oop EXCEPT ![o] = [NoRun EXCEPT !.lockId = oop[o].lockId,
                                                        !.acquired = oop[o].acquired]]
               /\ opc' = [opc EXCEPT ![o] = "idle"]
    /\ UNCHANGED <<now, qvars, jvars, wvars, avars, cvars, mvars, pvars, ivars, docLock, optLock, nextLockId, spc, sop,
                   optStats, searchCalls>>

\* releaseOptimizationLock, second command: DEL.
releaseOptimizationLock_del(o) ==
    /\ opc[o] = "release_del"
    /\ optLock' = NoLock
    /\ oop' = [oop EXCEPT ![o] = [NoRun EXCEPT !.lockId = oop[o].lockId,
                                              !.acquired = oop[o].acquired]]
    /\ opc' = [opc EXCEPT ![o] = "idle"]
    /\ UNCHANGED <<now, qvars, jvars, wvars, avars, cvars, mvars, pvars, ivars, docLock, nextLockId, spc, sop, optStats,
                   searchCalls>>

\* SearchOptimizer with two concurrent optimizeIndex callers, and one caller
\* of the SearchIndexer that fills the index.
ONext ==
    \/ LockTick(OptimizationLockSeconds)
    \/ \E id \in DocIds : indexDocument_acquireLock("c1", id, ContentA, "en")
    \/ indexDocument_exec("c1")
    \/ releaseLock_get("c1")
    \/ releaseLock_del("c1")
    \/ \E o \in Optimizers : optimizeIndex_acquireOptimizationLock(o)
    \/ \E o \in Optimizers : optimizeIndex_passes(o)
    \/ \E o \in Optimizers : releaseOptimizationLock_get(o)
    \/ \E o \in Optimizers : releaseOptimizationLock_del(o)

SpecOptimizer == Init /\ [][ONext]_vars

\* =========================================================================
\* SearchIndexer called by one caller; SearchQueryEngine.search
\* =========================================================================

\* The id of a member `${type}:${id}`.
IdOf(m) == CHOOSE i \in DocIds : Member(i) = m

\* ---- SearchQueryEngine

\* The letters of a token.
Spell(t) ==
    CASE t = "hello" -> <<"h", "e", "l", "l", "o">>
      [] t = "help" -> <<"h", "e", "l", "p">>
      [] t = "world" -> <<"w", "o", "r", "l", "d">>
      [] t = "the" -> <<"t", "h", "e">>
      [] t = "los" -> <<"l", "o", "s">>
      [] t = "to" -> <<"t", "o">>

Min3(a, b, c) == IF a <= b /\ a <= c THEN a ELSE IF b <= c THEN b ELSE c

\* levenshteinDistance on the first i letters of a and the first j of b.
RECURSIVE levenshtein(_, _, _, _)
levenshtein(a, b, i, j) ==
    IF i = 0 THEN j
    ELSE IF j = 0 THEN i
    ELSE Min3(levenshtein(a, b, i - 1, j) + 1,
              levenshtein(a, b, i, j - 1) + 1,
              levenshtein(a, b, i - 1, j - 1) + (IF a[i] = b[j] THEN 0 ELSE 1))

levenshteinDistance(a, b) == levenshtein(Spell(a), Spell(b), Len(Spell(a)), Len(Spell(b)))

\* getAllTokens: the search:inverted:* keys; a set without members is no key.
getAllTokens == {t \in Terms : inverted[t] # {}}

\* The pairs of tokens of the model that getSimilarTokens' filter accepts.
Similar ==
    [token \in Terms |-> {t \in Terms : levenshteinDistance(token, t) <= 2 /\ t # token}]

\* getSimilarTokens.
getSimilarTokens(token) == getAllTokens \cap Similar[token]

\* The order of two members in a sorted set that holds them with one score.
DocRank(id) == IF id = "d1" THEN 1 ELSE 2

\* zrange(key, 0, -1): the entries by ascending score, then by member.
RECURSIVE zrange(_)
zrange(z) ==
    IF z = {} THEN <<>>
    ELSE LET first == CHOOSE e \in z : \A f \in z :
                          \/ e.s < f.s
                          \/ e.s = f.s /\ DocRank(IdOf(e.m)) <= DocRank(IdOf(f.m))
         IN <<first>> \o zrange(z \ {first})

\* A Map<string, number>: the keys in insertion order, and their values.
EmptyMap == [keys |-> <<>>, val |-> [m \in {} |-> 0]]
MapHas(map, k) == k \in DOMAIN map.val
MapGet(map, k) == IF MapHas(map, k) THEN map.val[k] ELSE 0
MapSet(map, k, v) ==
    [keys |-> IF MapHas(map, k) THEN map.keys ELSE Append(map.keys, k),
     val |-> [m \in DOMAIN map.val \cup {k} |-> IF m = k THEN v ELSE map.val[m]]]

\* for (const { member, score } of exactMatches) scores.set(member, score)
RECURSIVE setAll(_, _)
setAll(map, entries) ==
    IF entries = <<>> THEN map
    ELSE setAll(MapSet(map, Head(entries).m, Head(entries).s), Tail(entries))

\* scores.set(member, (scores.get(member) ?? 0) + score * 0.5), for the
\* entries of one similar token.
RECURSIVE addHalf(_, _)
addHalf(map, entries) ==
    IF entries = <<>> THEN map
    ELSE addHalf(MapSet(map, Head(entries).m,
                        MapGet(map, Head(entries).m) + Head(entries).s \div 2),
                 Tail(entries))

\* The similar tokens, in the order redis.keys returns them.
RECURSIVE addSimilar(_, _)
addSimilar(map, tokens) ==
    IF tokens = {} THEN map
    ELSE LET t == CHOOSE x \in tokens : TRUE
         IN addSimilar(addHalf(map, zrange(inverted[t])), tokens \ {t})

\* getTermScores: one Map per token of the query.
RECURSIVE getTermScores(_, _)
getTermScores(tokens, fuzzy) ==
    IF tokens = <<>> THEN <<>>
    ELSE LET exact == setAll(EmptyMap, zrange(inverted[Head(tokens)]))
             scores == IF fuzzy THEN addSimilar(exact, getSimilarTokens(Head(tokens)))
                       ELSE exact
         IN <<scores>> \o getTermScores(Tail(tokens), fuzzy)

\* combinedScores.set(docId, (combinedScores.get(docId) ?? 0) + score), for
\* the entries of one Map.
RECURSIVE addMap(_, _, _)
addMap(map, scores, i) ==
    IF i > Len(scores.keys) THEN map
    ELSE addMap(MapSet(map, scores.keys[i], MapGet(map, scores.keys[i]) + scores.val[scores.keys[i]]),
                scores, i + 1)

\* combineScores.
RECURSIVE combineScores(_, _)
combineScores(map, termScores) ==
    IF termScores = <<>> THEN map
    ELSE combineScores(addMap(map, Head(termScores), 1), Tail(termScores))

\* Filters of a search: none, or one value of metadata.folder.
NoFilters == [k \in {} |-> "undefined"]
Filters == {NoFilters} \cup {[k \in {"folder"} |-> f] : f \in Folders}

\* applyFilters keeps a docId: the hget of its metadata is not null, and
\* docMetadata[key] === value for every entry of filters.
matchesFilters(docId, filters) ==
    /\ metaIndex.fields[IdOf(docId)] # NoMeta
    /\ \A k \in DOMAIN filters : metaIndex.fields[IdOf(docId)][k] = filters[k]

\* applyFilters without the comparison docMetadata[key] !== value.
applyFiltersAnyValue(scores, filters) ==
    LET keeps(docId) == metaIndex.fields[IdOf(docId)] # NoMeta
    IN [keys |-> SelectSeq(scores.keys, keeps),
        val |-> [k \in {m \in DOMAIN scores.val : keeps(m)} |-> scores.val[k]]]

\* applyFilters: the kept entries, in the order of the Map.
applyFilters(scores, filters) ==
    [keys |-> SelectSeq(scores.keys, LAMBDA k : matchesFilters(k, filters)),
     val |-> [k \in {m \in DOMAIN scores.val : matchesFilters(m, filters)} |-> scores.val[k]]]

\* paginateResults: Array.from(scores.entries()).sort((a, b) => b[1] - a[1])
\* (a stable sort), then slice(from, from + size).
paginateResults(scores, from, size) ==
    LET n == Len(scores.keys)
        place(i) == 1 + Cardinality({j \in 1..n :
                           \/ scores.val[scores.keys[j]] > scores.val[scores.keys[i]]
                           \/ /\ scores.val[scores.keys[j]] = scores.val[scores.keys[i]]
                              /\ j < i})
        sorted == [q \in 1..n |-> scores.keys[CHOOSE i \in 1..n : place(i) = q]]
        last == IF from + size < n THEN from + size ELSE n
    IN [i \in 1..(IF last > from THEN last - from ELSE 0) |->
           [docId |-> sorted[from + i], score |-> scores.val[sorted[from + i]]]]

\* prepareResults: the entries of the page whose document getDocument finds.
prepareResults(page) ==
    SelectSeq(page, LAMBDA r : docIndex[IdOf(r.docId)] # NoDoc)

\* What search gives: the results, or the error it throws.
Threw(message) == [threw |-> message, results |-> <<>>]
Returned(results) == [threw |-> "none", results |-> results]

\* SearchQueryEngine.search(query, {from, size, filters, fuzzy}) of
\* blockchainml-mailworker/src/services/search/query.ts, which reaches the
\* tokenizer as this.indexer["tokenizeContent"].  The hget of applyFilters
\* fails when the metadata key is no hash.
searchWith(query, filters, fuzzy, from, size) ==
    LET tokens == tokenizeContent(query, "en")
        combined == combineScores(EmptyMap, getTermScores(tokens, fuzzy))
    IN IF combined.keys # <<>> /\ metaIndex.kind # "hash"
       THEN Threw("WRONGTYPE")
       ELSE Returned(prepareResults(
                paginateResults(applyFilters(combined, filters), from, size)))

\* SearchQueryEngine.search of src/src/services/search/query.ts: it reaches
\* the tokenizer as this.indexer.private.tokenizeContent, and a SearchIndexer
\* has no member named private.
search_private(query, filters, fuzzy, from, size) ==
    Threw("TypeError: undefined is not an object")

\* size = 10, the default page; it holds every match of the model.
PageAll == 10

\* The queries, pages and options of the searches of the model.
Queries == {<<"hello">>, <<"help">>, <<"the">>, <<"Hello", "world!">>}
Froms == {0, 1}
Sizes == {1, PageAll}

\* The docIds of a search's results.
Found(r) == {r.results[i].docId : i \in DOMAIN r.results}

\* search(token) without options.
search(token) == Found(searchWith(<<token>>, NoFilters, FALSE, 0, PageAll))

\* Any sequence of indexDocument and deleteDocument calls of one caller,
\* without a language option.
SNext ==
    \/ \E id \in DocIds, content \in Contents :
          indexDocument_acquireLock("c1", id, content, "en")
    \/ \E id \in DocIds : deleteDocument_acquireLock("c1", id)
    \/ indexDocument_exec("c1")
    \/ deleteDocument_getDocument("c1")
    \/ deleteDocument_exec("c1")
    \/ releaseLock_get("c1")
    \/ releaseLock_del("c1")

SpecSequence == Init /\ [][SNext]_vars

\* An id that is in no index key.
Fresh(id) ==
    /\ docIndex[id] = NoDoc
    /\ metaIndex.fields[id] = NoMeta
    /\ \A t \in Terms : \A e \in inverted[t] : e.m # Member(id)

\* Sequences of calls of one caller in which a document is indexed once
\* before it is deleted.
DNext ==
    \/ \E id \in DocIds, content \in Contents, language \in Languages :
          Fresh(id) /\ indexDocument_acquireLock("c1", id, content, language)
    \/ \E id \in DocIds : deleteDocument_acquireLock("c1", id)
    \/ indexDocument_exec("c1")
    \/ deleteDocument_getDocument("c1")
    \/ deleteDocument_exec("c1")
    \/ releaseLock_get("c1")
    \/ releaseLock_del("c1")

SpecOnce == Init /\ [][DNext]_vars

\* SearchIndexer called by one caller with documents of several languages
\* and folders; SearchQueryEngine.search reads the index between the calls.
XNext ==
    \/ \E id \in DocIds, content \in {ContentA, ContentC}, language \in {"en", "es"},
          folder \in Folders :
          indexDocument_metadata("c1", id, content, language, folder)
    \/ \E id \in DocIds : deleteDocument_acquireLock("c1", id)
    \/ indexDocument_exec("c1")
    \/ deleteDocument_getDocument("c1")
    \/ deleteDocument_exec("c1")
    \/ releaseLock_get("c1")
    \/ releaseLock_del("c1")

SpecSearch == Init /\ [][XNext]_vars

\* JobScheduler with one JobWorker and jobs of several types, one of them
\* ("send_email") outside the switch of getJobHandler, with data their
\* handler's validation accepts or rejects.
WorkerJobTypes == {"cleanup_storage", "process_email", "index_search", "send_email"}
\* options.timeout of the jobs: one unit of the clock.
ShortTimeout == 1000 \div MsPerUnit
WNext ==
    \/ JobTick
    \/ \E t \in WorkerJobTypes, v \in BOOLEAN, rs \in RetryStrategyOptions :
          enqueueOf(t, v, "NORMAL", 0, rs, ShortTimeout)
    \/ moveScheduledJobs_zrange("jw1")
    \/ moveScheduledJobs_pipeline("jw1")
    \/ getNextJob_zpopmin("jw1")
    \/ getNextJob_setJobLock("jw1")
    \/ processJob_returns("jw1")
    \/ processJob_throws("jw1")
    \/ moveToDeadLetterQueue_zadd("jw1")

SpecWorker == Init /\ [][WNext]_vars

\* The same, where the clock keeps advancing and the worker keeps taking the
\* steps of its loop.  A handler owes nobody its completion: the promise
\* processJob awaits may never settle.
WorkerLoop ==
    \/ moveScheduledJobs_zrange("jw1")
    \/ moveScheduledJobs_pipeline("jw1")
    \/ getNextJob_zpopmin("jw1")
    \/ getNextJob_setJobLock("jw1")
    \/ moveToDeadLetterQueue_zadd("jw1")
SpecHang == SpecWorker /\ WF_vars(JobTick) /\ WF_vars(WorkerLoop)

\* JobScheduler with one JobWorker that is stopped at any point of its loop.
TNext ==
    \/ JobTick
    \/ \E rs \in RetryStrategyOptions : enqueue("NORMAL", 0, rs)
    \/ moveScheduledJobs_zrange("jw1")
    \/ moveScheduledJobs_pipeline("jw1")
    \/ getNextJob_zpopmin("jw1")
    \/ getNextJob_setJobLock("jw1")
    \/ processJob_returns("jw1")
    \/ processJob_throws("jw1")
    \/ moveToDeadLetterQueue_zadd("jw1")
    \/ stop("jw1")
    \/ stop_moveToDeadLetterQueue("jw1")

SpecStop == Init /\ [][TNext]_vars

\* AlertManager with its callers.
LNext ==
    \/ AlertTick
    \/ \E sev \in {"LOW", "HIGH"}, st \in AlertStatuses : createAlert(CallerAlertId, sev, st)
    \/ \E u \in BOOLEAN : generateSystemAlerts(u)
    \/ \E a \in AlertIds, u \in Users : acknowledgeAlert_exists(a, u)
    \/ acknowledgeAlert_hmset

SpecAlerts == Init /\ [][LNext]_vars

\* The cleanup handlers over a bucket, a collection and a cache that fill up.
KNext ==
    \/ JobTick
    \/ \E k \in {"object", "row", "key"}, st \in BOOLEAN, ttl \in {-1, 60} :
          putItem(k, st, IF k = "key" THEN ttl ELSE -1)
    \/ \E p \in {"storage://", "db://", "cache://"}, o \in {0, 1}, d \in BOOLEAN :
          cleanup(p, o * now, d)
    \/ \E o \in {0, 1}, d \in BOOLEAN : cleanupStorageTask(o * now, d)

SpecCleanup == Init /\ [][KNext]_vars

\* JobScheduler with clients that report progress and retry jobs.
ProgressInputs == {-5, 0, 50, 100, 150, NaN}
PNext ==
    \/ JobTick
    \/ \E d \in {0, 1}, rs \in RetryStrategyOptions : enqueue("NORMAL", d, rs)
    \/ \E i \in JobIds, n \in ProgressInputs : updateJobProgress_getJobById(i, n)
    \/ updateJobProgress_set
    \/ \E i \in JobIds : retryJob(i)

SpecProgress == Init /\ [][PNext]_vars

\* JobScheduler with several jobs enqueued, some at the same instant, and
\* a worker that leases them.
RNext ==
    \/ JobTick
    \/ \E p \in JobPriorities, d \in {0, 1} :
          enqueueWithin(MaxOrderEnqueues, "cleanup_storage", TRUE, p, d, NoStrategy, 0)
    \/ moveScheduledJobs_zrange("jw1")
    \/ moveScheduledJobs_pipeline("jw1")
    \/ getNextJob_zpopmin("jw1")
    \/ getNextJob_setJobLock("jw1")
    \/ processJob_returns("jw1")

SpecOrder == Init /\ [][RNext]_vars

\* SearchOptimizer.optimizeIndex with its cleanupUnusedTerms pass at the grain
\* of its awaits, next to a caller of SearchIndexer.
UNext ==
    \/ indexDocument_acquireLock("c1", "d1", ContentA, "en")
    \/ deleteDocument_acquireLock("c1", "d1")
    \/ indexDocument_exec("c1")
    \/ deleteDocument_getDocument("c1")
    \/ deleteDocument_exec("c1")
    \/ releaseLock_get("c1")
    \/ releaseLock_del("c1")
    \/ optimizeIndex_acquireOptimizationLock("o1")
    \/ cleanupUnusedTerms_scan("o1")
    \/ cleanupUnusedTerms_zcard("o1")
    \/ cleanupUnusedTerms_del("o1")
    \/ optimizeIndex_passes("o1")
    \/ releaseOptimizationLock_get("o1")
    \/ releaseOptimizationLock_del("o1")

SpecTerms == Init /\ [][UNext]_vars

\* QueueManager.enqueueTask with Redis commands that may fail.
ENext ==
    \/ Tick
    \/ \E p \in Priorities, d \in {0, FutureDelay}, m \in 0..2 : enqueueTask_call(p, d, m)
    \/ \E applied \in BOOLEAN, zaddThrows \in BOOLEAN, hsetThrows \in BOOLEAN :
           safeExecute_operation(applied, zaddThrows, hsetThrows)

SpecEnqueue == Init /\ [][ENext]_vars

\* The contents handed to indexing: strings of up to MaxContentLength
\* characters.
IndexingContents == {SubSeq(<<"a", " ", "b">>, 1, n) : n \in 0..MaxContentLength}

\* The index_search handler next to callers that index whole documents.
GNext ==
    \/ \E id \in DocIds : indexDocument_pipeline(id, DocType)
    \/ \E id \in DocIds, content \in IndexingContents, chunkSize \in {0, 1, 2} :
           indexing_splitIntoChunks(id, content, chunkSize)
    \/ indexing_indexChunk
    \/ indexing_updateDocumentMetadata

SpecChunks == Init /\ [][GNext]_vars

\* A MemoryCache and its callers.
MNext ==
    \/ \E strategy \in CacheStrategies \cup {"undefined"} : MemoryCache(strategy)
    \/ CacheTick
    \/ \E key \in CacheKeys, value \in CacheValues, ttl \in {0, 1} : cacheSetCall(key, value, ttl)
    \/ \E key \in CacheKeys : cacheGetCall(key)
    \/ \E key \in CacheKeys : cacheDeleteCall(key)
    \/ cacheClearCall

SpecCache == Init /\ [][MNext]_vars

\* =========================================================================
\* Properties
\* =========================================================================
Members(z) == {e.m : e \in z}
Ids(z) == {e.m.id : e \in z}
Quiescent == \A w \in Workers : pc[w] = "idle"

\* C1 (QueueManager partition disjointness): once every call of enqueueTask
\* and processNextTask has returned, each task id has an entry in at most
\* one of email:queue, email:processing and email:failed.
C1_PartitionDisjoint ==
    Quiescent =>
        \A i \in TaskIds :
            /\ ~(i \in Ids(queue) /\ i \in Ids(processing))
            /\ ~(i \in Ids(queue) /\ i \in Ids(failed))
            /\ ~(i \in Ids(processing) /\ i \in Ids(failed))

\* C2 (QueueManager lease uniqueness): two concurrent calls of
\* processNextTask never execute the same attempt of the same task, that
\* is, they never hold the same task id with the same attempts counter
\* while both are in the handler.
C2_LeaseUnique ==
    \A v, w \in Workers :
        (v # w /\ pc[v] = "exec" /\ pc[w] = "exec")
            => ~(task[v].id = task[w].id /\ task[v].attempts = task[w].attempts)

\* C3 (QueueManager priority ordering): when the queue holds exactly two
\* tasks, enqueued at the same time with equal scheduledFor, one of priority
\* high and one of a lower priority, and nothing has been processed yet,
\* the first processNextTask selects the high-priority task.
C3_HighFirst ==
    [][\A w \in Workers :
          ( /\ Quiescent
            /\ pc'[w] = "zrem"
            /\ processing = {} /\ failed = {}
            /\ Cardinality(queue) = 2
            /\ \E a, b \in queue :
                  /\ a.m.priority = "high" /\ b.m.priority # "high"
                  /\ a.m.createdAt = b.m.createdAt
                  /\ a.m.scheduledFor = b.m.scheduledFor )
          => result'[w].m.priority = "high"]_vars

\* C4 (QueueManager never runs a task early): the task processNextTask
\* selects has a scheduledFor that is not later than the time of the call.
C4_NeverEarly ==
    \A w \in Workers :
        pc[w] = "zrem" => TimeOf(result[w].m.scheduledFor) <= leaseNow[w]

\* C5 (QueueManager DLQ totality): when the catch block of processTask runs
\* for a task, the task is added to email:failed if and only if its attempts
\* counter has reached maxAttempts exactly; with attempts < maxAttempts it
\* is written back to email:queue and email:failed is left alone; attempts
\* never exceeds maxAttempts.
C5_DlqTotality ==
    [][\A w \in Workers :
          (pc[w] \in {"exec", "completion"} /\ pc'[w] \in {"retry_status", "failed_status"})
          => LET t == task'[w]
             IN /\ t.maxAttempts >= 1
                /\ t.attempts <= t.maxAttempts
                /\ (t.attempts = t.maxAttempts) <=> (JSONstringify(t) \in Members(failed'))
                /\ (t.attempts = t.maxAttempts) => queue' = queue
                /\ (t.attempts < t.maxAttempts)
                      => (JSONstringify(t) \in Members(queue') /\ failed' = failed)]_vars

\* A task with maxAttempts = 2 that was re-queued after its first failure
\* and put on email:failed by its second.
C5_Witness ==
    /\ Quiescent
    /\ \E e \in failed : e.m.attempts = 2 /\ e.m.maxAttempts = 2 /\ e.m.error = "handler"

\* C9 (QueueManager terminal cleanup): when a call of processNextTask whose
\* handler succeeded returns, the task id is in none of email:queue,
\* email:processing and email:failed and its status record says completed;
\* when a call returns after the task's final failure, the task id is in
\* email:failed and in neither of the other two sets.
C9_TerminalCleanup ==
    [][\A w \in Workers :
          (pc[w] # "idle" /\ pc'[w] = "idle")
          => LET t == task[w]
                 succeeded == t.completedAt # Undefined
             IN /\ succeeded
                     => /\ t.id \notin Ids(queue') \cup Ids(processing') \cup Ids(failed')
                        /\ status'[t.id].status = "completed"
                /\ (~succeeded /\ t.attempts >= t.maxAttempts)
                     => /\ t.id \in Ids(failed')
                        /\ t.id \notin Ids(queue') \cup Ids(processing')]_vars

\* C10 (QueueManager status record follows every transition): while a
\* leased task is in its handler, the record getTaskStatus returns for its
\* id reports status processing.
C10_StatusProcessing ==
    \A w \in Workers :
        pc[w] = "exec" => status[task[w].id].status = "processing"

\* The exponential backoff the retry paths are to follow: base * 2^(n-1)
\* for the n-th failure, capped at 30 s.
BackoffCap == 30000 \div MsPerUnit
CappedBackoff(base, n) ==
    IF base * (2 ^ (n - 1)) <= BackoffCap THEN base * (2 ^ (n - 1)) ELSE BackoffCap

\* The step of worker w in which handleFailedJob handles a thrown handler.
HandlerThrew(w) == jpc[w] = "handler" /\ currentJob'[w].status = "FAILED"
\* The step of worker w in which JobWorker.retryJob reschedules the job.
WorkerRetried(w) == HandlerThrew(w) /\ jpc'[w] = "idle"

\* C6 (JobWorker with JobScheduler): with no client call of
\* JobScheduler.retryJob, whenever the handler of a job throws, the job's
\* payload has been executed at most retryStrategy.maxAttempts times, and
\* when it has been executed exactly that often the job goes to jobs:dlq
\* instead of being rescheduled.
C6_BoundedRetries ==
    [][\A w \in JobWorkers :
          (HandlerThrew(w) /\ retryCalls = 0)
          => LET d == currentJob[w].data.key
                 max == currentJob[w].retryStrategy.maxAttempts
             IN /\ executions'[d] <= max
                /\ executions'[d] = max => jpc'[w] = "dlq"]_vars

\* C7 (monotone attempts in the JobWorker retry path): the record
\* JobWorker.retryJob adds to jobs:scheduled has the id of the job that
\* failed and an attempts counter greater than the one the failed attempt
\* started with.
C7_MonotoneAttempts ==
    [][\A w \in JobWorkers :
          WorkerRetried(w)
          => /\ jobsScheduled' # jobsScheduled
             /\ \A e \in jobsScheduled' \ jobsScheduled :
                   /\ e.m.id = currentJob[w].id
                   /\ e.m.attempts > currentJob[w].attempts]_vars

\* C8 (retry backoff): with exponential backoff, the retry of the n-th
\* failure of a job is scheduled at now + min(B * 2^(n-1), 30 s), B the
\* strategy's initialDelay, both when JobWorker.retryJob reschedules a
\* failed job and when JobScheduler.retryJob does.
C8_RetryBackoff ==
    [][/\ \A w \in JobWorkers :
            (WorkerRetried(w) /\ retryCalls = 0
               /\ currentJob[w].retryStrategy.backoff = "exponential")
            => \A e \in jobsScheduled' \ jobsScheduled :
                  TimeOf(e.m.scheduledFor)
                     = now + CappedBackoff(currentJob[w].retryStrategy.initialDelay,
                                           executions'[currentJob[w].data.key])
       /\ (retryCalls' = retryCalls + 1)
            => \A e \in jobsScheduled' \ jobsScheduled :
                  e.m.retryStrategy.backoff = "exponential"
                  => TimeOf(e.m.scheduledFor)
                        = now + CappedBackoff(e.m.retryStrategy.initialDelay, e.m.attempts)]_vars

\* C11 (QueueManager completion hook is best-effort): when enqueueing a
\* dependent task fails after the parent's handler succeeded, the parent is
\* not marked failed, not written back to email:queue and not added to
\* email:failed.
C11_HookBestEffort ==
    [][\A w \in Workers :
          (pc[w] = "completion" /\ task[w].dependentTasks > 0 /\ pc'[w] \notin {"completion", "metrics"})
          => /\ pc'[w] \notin {"retry_status", "failed_status"}
             /\ queue' = queue
             /\ failed' = failed
             /\ task'[w].id = task[w].id => task'[w].status = "completed"]_vars

\* C12 (JobScheduler lease uniqueness): with no client call of
\* JobScheduler.retryJob, two workers never hold the same job id as the job
\* getNextJob returned to them.
C12_JobLeaseUnique ==
    retryCalls = 0 =>
        \A v, w \in JobWorkers :
            (v # w /\ jpc[v] = "handler" /\ jpc[w] = "handler")
                => currentJob[v].id # currentJob[w].id

\* C13 (QueueManager lease transition): once every call of processNextTask
\* is over, also one that failed between its Redis commands, every task
\* that was enqueued is in email:queue or email:processing unless it is
\* terminal (in email:failed, or its status record says completed).
C13_LeaseTransition ==
    Quiescent =>
        \A i \in 1..(nextId - 1) :
            \/ i \in Ids(queue) \cup Ids(processing)
            \/ i \in Ids(failed)
            \/ status[i].status = "completed"

\* C14 (attempts bound): every task record in email:queue, email:processing
\* and email:failed and every status record has 0 <= attempts <=
\* maxAttempts, and so has every job record JobScheduler.retryJob writes:
\* job:{id}, the entries of jobs:scheduled, and the entries it adds to
\* jobs:dlq (those without an error field).
C14_AttemptsBound ==
    /\ \A e \in queue \cup processing \cup failed :
          /\ e.m.maxAttempts >= 1
          /\ 0 <= e.m.attempts /\ e.m.attempts <= e.m.maxAttempts
          /\ 0 <= status[e.m.id].attempts /\ status[e.m.id].attempts <= e.m.maxAttempts
    /\ \A i \in JobIds :
          jobStore[i] # NoJob
             => /\ jobStore[i].maxAttempts >= 1
                /\ 0 <= jobStore[i].attempts /\ jobStore[i].attempts <= jobStore[i].maxAttempts
    /\ \A e \in jobsScheduled \cup {f \in jobsDlq : f.m.error = "undefined"} :
          0 <= e.m.attempts /\ e.m.attempts <= e.m.maxAttempts

\* JobScheduler.retryJob has brought a job to attempts = maxAttempts and, at
\* its next call, moved it to jobs:dlq.
C14_Witness ==
    \E i \in JobIds :
        /\ jobStore[i] # NoJob
        /\ jobStore[i].attempts = jobStore[i].maxAttempts
        /\ \E e \in jobsDlq : e.m.id = i /\ e.m.error = "undefined"
                                /\ e.m.attempts = e.m.maxAttempts

\* C15 (QueueManager.enqueueTask rejects invalid calls): no entry of
\* email:queue and no status record comes from a call whose type is not a
\* TaskType or whose maxAttempts is below 1.
C15_RejectsInvalid ==
    /\ \A e \in queue : e.m.type \in TaskTypes /\ e.m.maxAttempts >= 1
    /\ \A i \in TaskIds : status[i] # NoStatus => status[i].type \in TaskTypes

\* C16 (lock release safety): when releaseLock deletes search:lock:{id}, the
\* key is either gone or holds the caller's own lock id; a caller never
\* deletes the lock another caller holds at that moment.
C16_ReleaseSafety ==
    [][\A c \in Callers :
          (spc[c] = "release_del" /\ spc'[c] = "idle")
             => LockValue(docLock[sop[c].id]) \in {0, sop[c].lockId}]_vars

\* C17 (optimizer mutual exclusion): two optimizeIndex invocations whose
\* locks' time to live has not elapsed are never both running the
\* maintenance passes.
C17_OptimizerExclusion ==
    \A o, q \in Optimizers :
        (o # q /\ opc[o] = "passes" /\ opc[q] = "passes")
           => (now >= oop[o].leaseUntil \/ now >= oop[q].leaseUntil)

\* The write section of a SearchIndexer call: between acquireLock and
\* releaseLock.
InWriteSection(c) == spc[c] \in {"index", "delete_get", "delete_exec", "meta"}

\* C18 (per-document exclusive mutation): two calls on the same document id
\* whose locks' 30 s time to live has not elapsed are never both in their
\* write sections; a call that cannot acquire the lock fails without
\* writing to the doc, meta or posting keys and without touching the lock;
\* once a call that acquired the lock has ended, the key does not hold its
\* lock id.
C18_ExclusiveMutation ==
    /\ \A c, d \in Callers :
          (c # d /\ InWriteSection(c) /\ InWriteSection(d) /\ sop[c].id = sop[d].id)
             => (now >= sop[c].leaseUntil \/ now >= sop[d].leaseUntil)
    /\ \A c \in Callers :
          (spc[c] = "idle" /\ sop[c].lockId # 0)
             => LockValue(docLock[sop[c].id]) # sop[c].lockId

\* C18, the call that cannot acquire the lock.
C18_FailedAcquire ==
    [][\A c \in Callers :
          (spc[c] = "idle" /\ sop'[c] # sop[c] /\ sop'[c].error = "Failed to acquire lock")
             => (spc'[c] = "idle" /\ ivars' = ivars /\ docLock' = docLock)]_vars

\* C19 (index consistency): between calls, every member "type:id" of every
\* posting set refers to a document that is in the doc hash and in the meta
\* hash.
C19_IndexConsistency ==
    (\A c \in Callers : spc[c] = "idle")
       => \A t \in Terms : \A e \in inverted[t] :
             /\ docIndex[IdOf(e.m)] # NoDoc
             /\ metaIndex.kind = "hash"
             /\ metaIndex.fields[IdOf(e.m)] # NoMeta

\* C20 (delete postcondition): when deleteDocument succeeds for a document
\* that was indexed once, no posting set contains its member, the doc and
\* meta hashes have no field for its id, and no search returns it.
C20_DeletePostcondition ==
    [][\A c \in Callers :
          (spc[c] = "delete_exec" /\ spc'[c] = "release_get" /\ sop'[c].error = "none")
             => /\ \A t \in Terms : \A e \in inverted'[t] : e.m # Member(sop[c].id)
                /\ docIndex'[sop[c].id] = NoDoc
                /\ metaIndex'.fields[sop[c].id] = NoMeta
                /\ \A t \in Terms : Member(sop[c].id) \notin search(t)']_vars

\* C21 (index-search round trip): between calls, a search for any token
\* under which a stored document is indexed, without filters and with a
\* page that holds every match, returns the document.
C21_RoundTrip ==
    (\A c \in Callers : spc[c] = "idle")
       => \A id \in DocIds : \A t \in Terms :
             (docIndex[id] # NoDoc /\ \E e \in inverted[t] : e.m = Member(id))
                => Member(id) \in search(t)

\* C22 (optimizeMetadata preserves filterability): after the passes of
\* optimizeIndex every document id that had a metadata entry still has it as
\* a field of the metadata hash, and every search returns what it returned
\* before.
C22_MetadataPreserved ==
    [][\A o \in Optimizers :
          (opc[o] = "passes" /\ opc'[o] = "release_get")
             => /\ metaIndex'.kind = "hash"
                /\ \A id \in DocIds :
                      metaIndex.fields[id] # NoMeta => metaIndex'.fields[id] = metaIndex.fields[id]
                /\ \A t \in Terms : search(t)' = search(t)]_vars

\* C23 (optimizer idempotence): on the index as it stands, with no index
\* write in between, a second run of updateTermFrequencies leaves every
\* posting member's score as the first run left it.
C23_OptimizerIdempotent ==
    updateTermFrequencies(updateTermFrequencies(inverted)) = updateTermFrequencies(inverted)

C25_FuzzyMonotone ==
    (\A c \in Callers : spc[c] = "idle") =>
    \A query \in Queries, filters \in Filters, from \in Froms, size \in Sizes :
        Found(searchWith(query, filters, FALSE, from, size))
           \subseteq Found(searchWith(query, filters, TRUE, from, size))

\* C26 (unsupported kind is fatal): when the worker fails a leased job whose
\* type has no handler, it schedules no new attempt of it and goes on to the
\* dead-letter queue, whatever attempts remain.
C26_UnsupportedFatal ==
    [][\A w \in JobWorkers :
          (jpc[w] = "handler" /\ jpc'[w] # "handler"
           /\ currentJob[w].type \notin SupportedJobTypes)
          => /\ jpc'[w] = "dlq"
             /\ jobsScheduled' = jobsScheduled
             /\ jobsQueue' = jobsQueue]_vars

\* C27 (invalid payloads are fatal): a job whose data fails its handler's
\* validation is never recorded as completed.
C27_InvalidFatal ==
    \A i \in JobIds :
        (jobStore[i] # NoJob /\ ~jobStore[i].data.valid
         /\ jobStore[i].type \in {"process_email", "index_search"})
        => (jobStatus[i] = NoStatus \/ jobStatus[i].status # "COMPLETED")

\* C28 (per-task timeout): a job whose handler has been running for
\* job.timeout leaves processJob; the worker does not wait for the handler
\* for ever.
C28_HandlerTimeout ==
    (jpc["jw1"] = "handler"
     /\ now >= getTime(currentJob["jw1"].startedAt) + currentJob["jw1"].timeout)
    ~> (jpc["jw1"] # "handler")

\* C29 (graceful shutdown): stop() does not fail or reschedule a job that
\* already completed: called while the worker's current job has status
\* COMPLETED, it writes no status, schedules no job and moves nothing to the
\* dead-letter queue.
C29_StopSparesCompleted ==
    [][\A w \in JobWorkers :
          (isRunning[w] /\ ~isRunning'[w]
           /\ currentJob[w] # NoJob /\ currentJob[w].status = "COMPLETED")
          => /\ jobStatus' = jobStatus
             /\ jobsScheduled' = jobsScheduled
             /\ jobsQueue' = jobsQueue
             /\ stopPc'[w] = "idle"]_vars

\* C29, second part: a job that stop() failed while its handler ran is not
\* recorded as completed afterwards.
C29_NotBoth ==
    [][\A w \in JobWorkers :
          (jpc[w] = "handler" /\ ~isRunning[w] /\ stopJob[w] # NoJob
           /\ stopJob[w].id = currentJob[w].id)
          => ~(jpc'[w] = "idle" /\ currentJob'[w].status = "COMPLETED")]_vars

\* C30 (alert resolution is terminal): acknowledgeAlert on an alert whose
\* status is RESOLVED leaves its status RESOLVED.
C30_ResolvedTerminal ==
    [][\A a \in AlertIds :
          (ackCall # NoAck /\ ackCall.alertId = a /\ ackCall' = NoAck
           /\ alertHash[a] # NoAlert /\ alertHash[a].status = "RESOLVED")
          => alertHash'[a].status = "RESOLVED"]_vars

\* C31 (cleanup cutoff safety): every object, row or cache key a cleanup
\* call deletes carries a timestamp older than the olderThan cutoff of the
\* call; nothing is deleted when the call gives no cutoff.
C31_CutoffSafety ==
    [][\A i \in items \ items' :
          /\ cleanupCall'.olderThan # 0
          /\ i.timestamp # 0
          /\ i.timestamp < cleanupCall'.olderThan]_vars

\* C32 (progress clamp): the progress of every stored job record is within
\* [0, 100], whatever number updateJobProgress was given.
C32_ProgressClamp ==
    \A i \in JobIds : jobStore[i] # NoJob => jobStore[i].progress \in 0..100

\* A job record of a job enqueued without scheduledFor: scheduleJob gave it
\* scheduledFor = createdAt.
EnqueuedNow(m) == m.scheduledFor = m.createdAt
PriorityRank(p) == CASE p = "HIGH" -> 3 [] p = "NORMAL" -> 2 [] p = "LOW" -> 1

\* C33 (JobScheduler priority ordering): when getNextJob pops a job that was
\* enqueued without scheduledFor, no job enqueued at the same instant
\* without scheduledFor and of higher priority is still waiting in
\* jobs:queue.
C33_PriorityOrder ==
    [][\A w \in JobWorkers :
          (jpc[w] = "zpopmin" /\ jpc'[w] = "lock" /\ EnqueuedNow(job'[w]))
          => \A e \in jobsQueue :
                (EnqueuedNow(e.m) /\ e.m.createdAt = job'[w].createdAt)
                => PriorityRank(e.m.priority) <= PriorityRank(job'[w].priority)]_vars

\* A HIGH job has been popped while a NORMAL job enqueued at the same
\* instant waits in jobs:queue.
C33_Witness ==
    \E w \in JobWorkers : \E e \in jobsQueue :
        /\ jpc[w] = "lock"
        /\ job[w].priority = "HIGH" /\ EnqueuedNow(job[w])
        /\ e.m.priority = "NORMAL" /\ EnqueuedNow(e.m)
        /\ e.m.createdAt = job[w].createdAt

\* C34 (cleanupUnusedTerms deletes only empty postings): every posting key
\* the del of cleanupUnusedTerms removes has no member at that moment, so
\* the del changes no posting set.
C34_CleanupLosesNothing ==
    [][(termScan.stage = "counted" /\ termScan'.stage = "done")
          => \A t \in termScan.toDelete : inverted[t] = {}]_vars

\* C35 (one record per job): each job id has at most one entry across
\* jobs:queue, jobs:scheduled and jobs:dlq.
C35_OneRecordPerJob ==
    \A i \in JobIds :
        Cardinality({e \in jobsQueue : e.m.id = i})
          + Cardinality({e \in jobsScheduled : e.m.id = i})
          + Cardinality({e \in jobsDlq : e.m.id = i}) <= 1

\* C36 (updateJobProgress changes only progress): the set of updateJobProgress
\* leaves the attempts, status and scheduledFor of the stored job:{id} record
\* as they are at that moment, also when retryJob has written them since the
\* record was read.
C36_ProgressOnly ==
    [][(progressCall # NoProgress /\ progressCall' = NoProgress)
          => LET before == jobStore[progressCall.jobId]
                 after == jobStore'[progressCall.jobId]
             IN /\ after.attempts = before.attempts
                /\ after.status = before.status
                /\ after.scheduledFor = before.scheduledFor]_vars

\* C37 (enqueueTask enqueues exactly once): one enqueueTask call adds at most
\* one entry to email:queue, and when it has returned an id, exactly the
\* entry of that id.
C37_EnqueuesOnce ==
    LET added == {e.m.id : e \in queue} \ enqueueCall.before
    IN /\ Cardinality(added) <= 1
       /\ enqueueCall.stage = "returned" => added = {enqueueCall.id}

\* C38 (chunked indexing completes): an indexing call with non-empty content
\* whose chunks were all indexed does not end with an error, whether or not
\* a document of id documentId was indexed before.
C38_IndexingCompletes ==
    indexingCall.stage = "threw" => indexingCall.content = <<>>

\* C39 (MemoryCache size accounting): the size statistic equals the sum of
\* the sizes of the entries the cache holds.
C39_SizeAccounting == cacheSize = heldSize(cache)

\* C40 (MemoryCache capacity bound): the sum of the sizes of the entries held
\* does not exceed config.maxSize, under each eviction strategy.
C40_CapacityBound == heldSize(cache) <= CacheMaxSize

=============================================================================
